---- MODULE Spec2Model ----
(***************************************************************************)
(* Model of the DraftKings discovery-and-extraction pipeline:              *)
(*   DraftKingsDynamicClient (src/src/providers/draftkings/client.py)      *)
(*   DraftKingsParser        (src/src/providers/draftkings/parser.py)      *)
(*   StandardizedGame        (src/src/core/schemas.py)                     *)
(*                                                                         *)
(* JSON values keep their shape: a value that the code expects to be an    *)
(* object may be null, a list or a scalar, and the Python operations the   *)
(* code applies to it (.get, iteration, `in`, str) then raise.             *)
(***************************************************************************)
EXTENDS Integers, Sequences, FiniteSets, TLC

----------------------------------------------------------------------------
(* Bounds of the model *)

MaxOverrides == 1
MaxSets == 3
MaxEvents == 2
MaxBatchItems == 1
MaxMarkets == 2
MaxSelections == 2
MaxParticipants == 3
MaxQueryLen == 2

----------------------------------------------------------------------------
(* Python values: None, strings; truthiness as `if not x` sees it *)

None == [t |-> "none", v |-> ""]
Str(s) == [t |-> "str", v |-> s]
Truthy(x) == x.t = "str" /\ x.v # ""

SeqsUpTo(S, n) == UNION {[1..k -> S] : k \in 0..n}

----------------------------------------------------------------------------
(* mappings.py *)

SUBCATEGORY_IDS == ("NFL" :> "4518") @@ ("NBA" :> "4511")

LEAGUE_ROUTES == ("NFL" :> "/leagues/football/nfl") @@ ("NBA" :> "/leagues/basketball/nba")

\* dict.get(key) with the default None
DictGet(d, k) == IF k \in DOMAIN d THEN Str(d[k]) ELSE None

\* the sport names a caller passes: one that both tables know, and "MLB",
\* which the provider maps but neither table has
Sports == {"NFL", "MLB"}

----------------------------------------------------------------------------
(* A string is modelled as the sequence of its pieces; the pieces that the
   code searches for or replaces are single tokens. *)

Contains(q, tok) == \E i \in 1..Len(q) : q[i] = tok

RECURSIVE Replace(_, _, _)
Replace(q, tok, by) ==
    IF q = <<>> THEN <<>>
    ELSE <<(IF Head(q) = tok THEN by ELSE Head(q))>> \o Replace(Tail(q), tok, by)

\* route.split('/league/')[1]: the text between the first and the second marker
RECURSIVE UpToMarker(_)
UpToMarker(q) ==
    IF q = <<>> \/ Head(q) = "/league/" THEN <<>>
    ELSE <<Head(q)>> \o UpToMarker(Tail(q))

RECURSIVE AfterMarker(_)
AfterMarker(q) ==
    IF q = <<>> THEN <<>>
    ELSE IF Head(q) = "/league/" THEN UpToMarker(Tail(q))
    ELSE AfterMarker(Tail(q))

RECURSIVE Join(_)
Join(q) == IF q = <<>> THEN "" ELSE Head(q) \o Join(Tail(q))

----------------------------------------------------------------------------
(* JSON shapes of the manifest *)

NoRoute == [t |-> "absent", toks |-> <<>>]
RouteStr(toks) == [t |-> "str", toks |-> toks]

\* an override object, or a JSON value that is not an object
Override(seo, tid, route) == [t |-> "obj", seoRoute |-> seo, templateId |-> tid, route |-> route]
BadOverride == [t |-> "bad", seoRoute |-> "", templateId |-> None, route |-> NoRoute]

\* the value under a key that should hold a list: absent, null or a list
Absent == [t |-> "absent", items |-> <<>>]
Null == [t |-> "null", items |-> <<>>]
List(items) == [t |-> "list", items |-> items]

RouteGroup(key, overrides) == [t |-> "obj", key |-> key, overrides |-> overrides]
BadRouteGroup == [t |-> "bad", key |-> "", overrides |-> Absent]

\* the manifest body: an object with `routes`, a falsy value ({} / null / []),
\* or a truthy value that is not an object (a non-empty list)
Manifest(routes) == [t |-> "obj", routes |-> routes]
FalsyManifest == [t |-> "falsy", routes |-> Absent]
ListManifest == [t |-> "list", routes |-> Absent]
\* what fetch_json returns when the request failed
NoManifest == [t |-> "none", routes |-> Absent]

\* variant: only an empty body counts as falsy, a failed request does not
Falsy_IgnoresNone(x) == x.t = "falsy"

\* `not x` for a fetched body
Falsy(x) == x.t \in {"none", "falsy"}

----------------------------------------------------------------------------
(* DraftKingsDynamicClient.find_league_info *)

LeagueNotFound == [st |-> "notfound", template_id |-> None, league_id |-> None]
LeagueRaised == [st |-> "raised", template_id |-> None, league_id |-> None]

\* lines 105-117: the matching override supplies both ids
MatchOverride(ov) ==
    IF ov.route.t = "null" THEN LeagueRaised              \* '/league/' in None
    ELSE [st |-> "found",
          template_id |-> ov.templateId,
          league_id |-> IF Contains(ov.route.toks, "/league/")
                        THEN Str(Join(AfterMarker(ov.route.toks)))
                        ELSE None]

\* variant: the first override is taken whatever its seoRoute
RECURSIVE ScanOverrides_AnyRoute(_, _)
ScanOverrides_AnyRoute(ovs, target) ==
    IF ovs = <<>> THEN LeagueNotFound
    ELSE IF Head(ovs).t # "obj" THEN LeagueRaised
    ELSE MatchOverride(Head(ovs))

\* variant: a matching override whose route gives no league id is passed over
RECURSIVE ScanOverrides_UntilLeagueId(_, _)
ScanOverrides_UntilLeagueId(ovs, target) ==
    IF ovs = <<>> THEN LeagueNotFound
    ELSE IF Head(ovs).t # "obj" THEN LeagueRaised
    ELSE IF Head(ovs).seoRoute = target /\ MatchOverride(Head(ovs)).league_id # None
         THEN MatchOverride(Head(ovs))
    ELSE ScanOverrides_UntilLeagueId(Tail(ovs), target)

RECURSIVE ScanOverrides(_, _)
ScanOverrides(ovs, target) ==
    IF ovs = <<>> THEN LeagueNotFound
    ELSE IF Head(ovs).t # "obj" THEN LeagueRaised           \* override.get
    ELSE IF Head(ovs).seoRoute = target THEN MatchOverride(Head(ovs))
    ELSE ScanOverrides(Tail(ovs), target)

RECURSIVE ScanGroups(_, _)
ScanGroups(groups, target) ==
    IF groups = <<>> THEN LeagueNotFound
    ELSE LET g == Head(groups) IN
         IF g.t # "obj" THEN LeagueRaised                  \* route_group.get
         ELSE IF g.key # "league" THEN ScanGroups(Tail(groups), target)
         ELSE IF g.overrides.t = "null" THEN LeagueRaised  \* for ... in None
         ELSE LET r == ScanOverrides(g.overrides.items, target) IN
              IF r.st = "notfound" THEN ScanGroups(Tail(groups), target) ELSE r

find_league_info(manifest_data, sport_name) ==
    IF Falsy(manifest_data) THEN LeagueNotFound
    ELSE IF ~Truthy(DictGet(LEAGUE_ROUTES, sport_name)) THEN LeagueNotFound
    ELSE IF manifest_data.t # "obj" THEN LeagueRaised      \* manifest_data.get
    ELSE IF manifest_data.routes.t = "null" THEN LeagueRaised
    ELSE ScanGroups(manifest_data.routes.items, LEAGUE_ROUTES[sport_name])

----------------------------------------------------------------------------
(* JSON shapes of the template *)

\* a query template string: absent (the '' default), a string, or a truthy
\* JSON value that is not a string (a number)
NoQuery == [t |-> "absent", toks |-> <<>>]
Query(toks) == [t |-> "str", toks |-> toks]
NumQuery == [t |-> "num", toks |-> <<>>]
QueryTruthy(q) == q.t = "num" \/ (q.t = "str" /\ q.toks # <<>>)

Params(ev, mk) == [t |-> "obj", eventsQuery |-> ev, marketsQuery |-> mk]
NullParams == [t |-> "null", eventsQuery |-> NoQuery, marketsQuery |-> NoQuery]

DataSet(name, provider, params) ==
    [t |-> "obj", name |-> name, provider |-> provider, parameters |-> params]
BadDataSet == [t |-> "bad", name |-> "", provider |-> "", parameters |-> NullParams]

\* the template body: an object whose data.sets is absent, null or a list; an
\* object whose `data` is null; a falsy value; a truthy non-object
Template(sets) == [t |-> "obj", sets |-> sets]
NullDataTemplate == [t |-> "nulldata", sets |-> Absent]
FalsyTemplate == [t |-> "falsy", sets |-> Absent]
ListTemplate == [t |-> "list", sets |-> Absent]
NoTemplate == [t |-> "none", sets |-> Absent]

----------------------------------------------------------------------------
(* DraftKingsDynamicClient.extract_all_market_queries *)

Candidate(ds) ==
    [name |-> ds.name,
     eventsQuery |-> ds.parameters.eventsQuery,
     marketsQuery |-> ds.parameters.marketsQuery]

\* variant: a descriptor is kept on its marketsQuery alone
RECURSIVE ScanSets_MarketsQueryOnly(_)
ScanSets_MarketsQueryOnly(sets) ==
    IF sets = <<>> THEN [st |-> "ok", queries |-> <<>>]
    ELSE LET ds == Head(sets)
             rest == ScanSets_MarketsQueryOnly(Tail(sets))
         IN  IF ds.t # "obj" THEN [st |-> "raised", queries |-> <<>>]
             ELSE IF ds.provider = "Markets" /\ ds.parameters.t = "null"
                  THEN [st |-> "raised", queries |-> <<>>]
             ELSE IF rest.st = "raised" THEN rest
             ELSE IF ds.provider = "Markets" /\ QueryTruthy(ds.parameters.marketsQuery)
                  THEN [st |-> "ok", queries |-> <<Candidate(ds)>> \o rest.queries]
             ELSE rest

RECURSIVE ScanSets(_)
ScanSets(sets) ==
    IF sets = <<>> THEN [st |-> "ok", queries |-> <<>>]
    ELSE LET ds == Head(sets)
             rest == ScanSets(Tail(sets))
         IN  IF ds.t # "obj" THEN [st |-> "raised", queries |-> <<>>]      \* data_set.get
             ELSE IF ds.provider = "Markets" /\ ds.parameters.t = "null"
                  THEN [st |-> "raised", queries |-> <<>>]                 \* params.get
             ELSE IF rest.st = "raised" THEN rest
             ELSE IF /\ ds.provider = "Markets"
                     /\ QueryTruthy(ds.parameters.marketsQuery)
                     /\ QueryTruthy(ds.parameters.eventsQuery)
                  THEN [st |-> "ok", queries |-> <<Candidate(ds)>> \o rest.queries]
             ELSE rest

extract_all_market_queries(template_data) ==
    IF Falsy(template_data) THEN [st |-> "ok", queries |-> <<>>]
    ELSE IF template_data.t # "obj" THEN [st |-> "raised", queries |-> <<>>]
    ELSE IF template_data.sets.t = "null" THEN [st |-> "raised", queries |-> <<>>]
    ELSE ScanSets(template_data.sets.items)

----------------------------------------------------------------------------
(* DraftKingsDynamicClient.construct_market_url *)

MARKET_URL_BASE == "https://sportsbook-nash.draftkings.com/sites/US-OH-SB/api/sportscontent/controldata/league/leagueSubcategory/v1/markets"

\* variant: the @page.leagueId form of the placeholder is left as it is
construct_market_url_NoPageVar(queries, league_id) ==
    [base |-> MARKET_URL_BASE,
     isBatchable |-> "false",
     templateVars |-> league_id,
     eventsQuery |-> Join(Replace(queries.eventsQuery, "@leagueId", league_id)),
     marketsQuery |-> Join(Replace(queries.marketsQuery, "@leagueId", league_id)),
     include |-> "Events",
     entity |-> "events"]

construct_market_url(queries, league_id) ==
    LET events_query == Replace(Replace(queries.eventsQuery, "@leagueId", league_id),
                                "@page.leagueId", league_id)
        markets_query == Replace(Replace(queries.marketsQuery, "@leagueId", league_id),
                                 "@page.leagueId", league_id)
    IN  [base |-> MARKET_URL_BASE,
         isBatchable |-> "false",
         templateVars |-> league_id,
         eventsQuery |-> Join(events_query),
         marketsQuery |-> Join(markets_query),
         include |-> "Events",
         entity |-> "events"]

----------------------------------------------------------------------------
(* JSON shapes of the market-data response *)

\* an object whose `events` is absent, an empty list or a non-empty list (the
\* payload is identified by id); a falsy value; a truthy non-object
MarketData(events, id) == [t |-> "obj", events |-> events, id |-> id]
FalsyMarketData == [t |-> "falsy", events |-> "absent", id |-> ""]
ListMarketData == [t |-> "list", events |-> "absent", id |-> ""]
NoMarketData == [t |-> "none", events |-> "absent", id |-> ""]

----------------------------------------------------------------------------
(* What the vendor's endpoints may answer *)

\* a non-2xx answer still carries a body; a connection error or a timeout has none
Responses(bodies, none) ==
    {[transport |-> tr, body |-> b] : tr \in {"ok", "http_error"}, b \in bodies}
        \cup {[transport |-> f, body |-> none] : f \in {"connection_error", "timeout"}}

NflRoute == "/leagues/football/nfl"
NbaRoute == "/leagues/basketball/nba"

OverrideShapes ==
    {Override(seo, tid, route) :
        seo \in {NflRoute, NbaRoute},
        tid \in {Str("T1"), None},
        route \in {RouteStr(<<"/sport/3", "/league/", "88808">>),
                   RouteStr(<<"/sport/3">>),
                   [t |-> "null", toks |-> <<>>]}}
        \cup {BadOverride}

ManifestBodies ==
    {FalsyManifest, ListManifest, Manifest(Absent), Manifest(Null),
     Manifest(List(<<BadRouteGroup>>)),
     Manifest(List(<<RouteGroup("league", Null)>>))}
        \cup {Manifest(List(<<RouteGroup("home", Null), RouteGroup("league", List(ovs))>>)) :
                ovs \in SeqsUpTo(OverrideShapes, MaxOverrides)}

GoodMarketsQuery == Query(<<"subcategoryId=", "@subcategoryId">>)
GoodEventsQuery == Query(<<"leagueId=", "@leagueId", "subcategoryId=", "@subcategoryId">>)

EventsQueries ==
    {NoQuery, NumQuery,
     GoodEventsQuery,
     Query(<<"eventId", "subcategoryId=", "@subcategoryId">>),
     Query(<<"leagueId=", "@page.leagueId">>)}

DataSets ==
    {DataSet("lines", "Markets", Params(ev, GoodMarketsQuery)) : ev \in EventsQueries}
        \cup {DataSet("nav", "Navigation", NullParams), BadDataSet}

TemplateBodies ==
    {FalsyTemplate, ListTemplate, NullDataTemplate, Template(Absent), Template(Null)}
        \cup {Template(List(s)) : s \in SeqsUpTo(DataSets, MaxSets)}

MarketBodies ==
    {FalsyMarketData, ListMarketData, MarketData("absent", "p0"), MarketData("empty", "p0")}
        \cup {MarketData("nonempty", id) : id \in {"p1", "p2"}}

----------------------------------------------------------------------------
(* DraftKingsDynamicClient.fetch_json *)

\* variant: raise_for_status() left out, the body of a non-2xx answer is used
fetch_json_NoStatusCheck(resp, none) ==
    IF resp.transport \in {"ok", "http_error"} THEN resp.body ELSE none

\* a RequestException (connection error, timeout, raise_for_status) gives None
fetch_json(resp, none) == IF resp.transport = "ok" THEN resp.body ELSE none

----------------------------------------------------------------------------
(* JSON shapes of the raw market payload (parser.py) *)

\* scalar JSON values: a string, a number (v is its str() rendering), null;
\* None stands for a key that is absent
Num(s) == [t |-> "num", v |-> s]
JsonNull == [t |-> "null", v |-> ""]

Participant(role, name) == [t |-> "obj", venueRole |-> role, name |-> name]
BadParticipant == [t |-> "bad", venueRole |-> None, name |-> None]

Event(id, start, status, participants) ==
    [t |-> "obj", id |-> id, startEventDate |-> start, status |-> status,
     participants |-> participants]
BadEvent == [t |-> "bad", id |-> None, startEventDate |-> None, status |-> None,
             participants |-> Absent]

Market(id, eventId, name) == [t |-> "obj", id |-> id, eventId |-> eventId, name |-> name]
BadMarket == [t |-> "bad", id |-> None, eventId |-> None, name |-> None]

\* displayOdds: absent, null, or an object whose `american` is absent, a
\* string (a sequence of pieces, "U+2212" being the minus sign glyph) or a number
NoAmerican == [t |-> "absent", toks |-> <<>>]
AmericanStr(toks) == [t |-> "str", toks |-> toks]
AmericanNum(v) == [t |-> "num", toks |-> <<v>>]
NoOdds == [t |-> "absent", american |-> NoAmerican]
NullOdds == [t |-> "null", american |-> NoAmerican]
Odds(american) == [t |-> "obj", american |-> american]

Selection(marketId, label, points, displayOdds) ==
    [t |-> "obj", marketId |-> marketId, label |-> label, points |-> points,
     displayOdds |-> displayOdds]
BadSelection == [t |-> "bad", marketId |-> None, label |-> None, points |-> None,
                 displayOdds |-> NoOdds]

Payload(events, markets, selections) ==
    [t |-> "obj", events |-> events, markets |-> markets, selections |-> selections]
ListPayload == [t |-> "list", events |-> Absent, markets |-> Absent, selections |-> Absent]

----------------------------------------------------------------------------
(* Python operations used by the parser *)

\* str(x)
PyStr(x) == IF x.t = "null" \/ x.t = "none" THEN "None" ELSE x.v

\* d.get(key, default) for a key that holds a scalar
GetOr(x, default) == IF x.t = "none" THEN default ELSE x

\* truthiness of a scalar
ScalarTruthy(x) ==
    \/ x.t = "str" /\ x.v # ""
    \/ x.t = "num" /\ x.v # "0"

\* str.lower() on the venue roles the vendor sends
Lower(s) ==
    CASE s \in {"HOME", "Home"} -> "home"
      [] s \in {"AWAY", "Away"} -> "away"
      [] OTHER -> s

\* datetime.fromisoformat(utc_str.replace("Z", "+00:00"))
IsoTimestamps == {"2024-01-15T20:00:00Z", "2024-01-15T20:00:00+00:00"}
NoDatetime == [t |-> "none", v |-> ""]

\* variant: a text that cannot be parsed is handed back as it is
convert_to_datetime_KeepsText(utc_str) ==
    IF utc_str.t = "str" /\ utc_str.v \in IsoTimestamps
    THEN [t |-> "datetime", v |-> "2024-01-15T20:00:00+00:00"]
    ELSE utc_str

\* DraftKingsParser.convert_to_datetime: every exception gives None
convert_to_datetime(utc_str) ==
    IF utc_str.t = "str" /\ utc_str.v \in IsoTimestamps
    THEN [t |-> "datetime", v |-> "2024-01-15T20:00:00+00:00"]
    ELSE NoDatetime

\* variant: a key that is missing gives the group of some other key
IndexGet_AnyGroup(index, key) ==
    IF key \in DOMAIN index THEN index[key]
    ELSE IF DOMAIN index = {} THEN <<>>
    ELSE index[CHOOSE k \in DOMAIN index : TRUE]

\* a dict as a function; d.get(key, [])
IndexGet(index, key) == IF key \in DOMAIN index THEN index[key] ELSE <<>>

\* lines 84-89 and 92-97: group the items by the value under `key`, keeping order
RECURSIVE GroupBy(_, _, _)
GroupBy(items, key, index) ==
    IF items = <<>> THEN index
    ELSE LET item == Head(items)
             k == item[key]
         IN  GroupBy(Tail(items), key,
                     [x \in DOMAIN index \cup {k} |->
                         IF x = k THEN Append(IndexGet(index, k), item) ELSE index[x]])

EmptyIndex == [x \in {} |-> <<>>]

\* iterating a value and calling .get on each item raises unless it is a list
\* of objects (an absent key gives the [] default)
Iterable(list) == list.t # "null" /\ \A i \in 1..Len(list.items) : list.items[i].t = "obj"

----------------------------------------------------------------------------
(* DraftKingsParser.parse_games: one selection, one market, one event *)

\* replace only the first piece equal to tok
RECURSIVE ReplaceFirst(_, _, _)
ReplaceFirst(q, tok, by) ==
    IF q = <<>> THEN <<>>
    ELSE IF Head(q) = tok THEN <<by>> \o Tail(q)
    ELSE <<Head(q)>> \o ReplaceFirst(Tail(q), tok, by)

\* variant: `if points:` in place of `if points is not None:`
ParseSelection_TruthyPoints(sel) ==
    LET label == PyStr(GetOr(sel.label, Str("Unknown")))
        american == sel.displayOdds.american
        odds == CASE american.t = "absent" -> Str("N/A")
                  [] american.t = "str" -> Str(Join(Replace(american.toks, "U+2212", "-")))
                  [] OTHER -> Num(american.toks[1])
    IN  [label |-> IF ~ScalarTruthy(sel.points)
                   THEN label
                   ELSE label \o " (" \o PyStr(sel.points) \o ")",
         odds |-> odds]

\* variant: only the first minus sign of the odds is replaced
ParseSelection_FirstMinus(sel) ==
    LET label == PyStr(GetOr(sel.label, Str("Unknown")))
        american == sel.displayOdds.american
        odds == CASE american.t = "absent" -> Str("N/A")
                  [] american.t = "str" -> Str(Join(ReplaceFirst(american.toks, "U+2212", "-")))
                  [] OTHER -> Num(american.toks[1])
    IN  [label |-> IF sel.points.t \in {"none", "null"}
                   THEN label
                   ELSE label \o " (" \o PyStr(sel.points) \o ")",
         odds |-> odds]

\* lines 158-171
ParseSelection(sel) ==
    LET label == PyStr(GetOr(sel.label, Str("Unknown")))
        american == sel.displayOdds.american
        odds == CASE american.t = "absent" -> Str("N/A")
                  [] american.t = "str" -> Str(Join(Replace(american.toks, "U+2212", "-")))
                  [] OTHER -> Num(american.toks[1])
    IN  [label |-> IF sel.points.t \in {"none", "null"}
                   THEN label
                   ELSE label \o " (" \o PyStr(sel.points) \o ")",
         odds |-> odds]

\* sel.get('displayOdds', {}).get(...) raises when displayOdds is null
SelectionRaises(sel) == sel.displayOdds.t = "null"

RECURSIVE ParseSelections(_)
ParseSelections(sels) ==
    IF sels = <<>> THEN <<>>
    ELSE <<ParseSelection(Head(sels))>> \o ParseSelections(Tail(sels))

\* variant: the former filter on the three main markets is still in place
add_market_MainOnly(markets, market_name, selections) ==
    IF market_name \in {"Moneyline", "Spread", "Total"}
    THEN [n \in DOMAIN markets \cup {market_name} |->
            IF n = market_name THEN selections ELSE markets[n]]
    ELSE markets

\* schemas.py 14, `markets: Dict[str, Any] = {}`: a BaseModel gives every new
\* instance its own copy of the declared default
FieldDefault(class_default) == class_default

\* variant: what a game adds is also added to the class-level default
DefaultAfter_Merged(class_default, markets) ==
    [n \in DOMAIN class_default \cup DOMAIN markets |->
        IF n \in DOMAIN markets THEN markets[n] ELSE class_default[n]]

\* variant: the instance's mapping is the class-level default itself
DefaultAfter_Shared(class_default, markets) == markets

\* the class-level default after a game built from it has had its markets
\* added: add_market writes to the instance's copy only
DefaultAfter(class_default, markets) == class_default

\* StandardizedGame.add_market (schemas.py 17-24)
\* variant: the selections are added to those already under the name
add_market_Extends(markets, market_name, selections) ==
    [n \in DOMAIN markets \cup {market_name} |->
        IF n # market_name THEN markets[n]
        ELSE IF n \in DOMAIN markets THEN markets[n] \o selections
        ELSE selections]

add_market(markets, market_name, selections) ==
    [n \in DOMAIN markets \cup {market_name} |->
        IF n = market_name THEN selections ELSE markets[n]]

\* lines 143-174: the markets of one event, folded into the game's mapping
RECURSIVE ParseMarkets(_, _, _)
ParseMarkets(event_markets, sel_index, markets) ==
    IF event_markets = <<>> THEN [st |-> "ok", markets |-> markets]
    ELSE LET mkt == Head(event_markets)
             market_name == PyStr(GetOr(mkt.name, Str("Unknown")))
             mkt_selections == IndexGet(sel_index, mkt.id)
         IN  IF \E i \in 1..Len(mkt_selections) : SelectionRaises(mkt_selections[i])
             THEN [st |-> "error", markets |-> markets]
             ELSE ParseMarkets(Tail(event_markets), sel_index,
                               add_market(markets, market_name,
                                          ParseSelections(mkt_selections)))

\* variant: the venue role is not looked at
Team_IgnoresRole(participants, role) ==
    IF participants = <<>> THEN None
    ELSE GetOr(participants[Len(participants)].name, Str(""))

\* lines 116-123: the last participant of each role wins
RECURSIVE Team(_, _)
Team(participants, role) ==
    IF participants = <<>> THEN None
    ELSE LET last == participants[Len(participants)] IN
         IF Lower(PyStr(GetOr(last.venueRole, Str("")))) = role
         THEN GetOr(last.name, Str(""))
         ELSE Team(SubSeq(participants, 1, Len(participants) - 1), role)

\* participant.get(...) on a non-object, or .lower() on null, raises
ParticipantsRaise(participants) ==
    \/ ~Iterable(participants)
    \/ \E i \in 1..Len(participants.items) : participants.items[i].venueRole.t \in {"null", "num"}

NoGame == [sport |-> "", game_id |-> "", home_team |-> None, away_team |-> None,
           start_time |-> NoDatetime, status |-> None, markets |-> EmptyIndex]

\* lines 102-180: what one iteration of the loop over the events does:
\*   "emit"  the game is appended
\*   "skip"  `continue`, or an exception caught and logged by the handler
\*   "raise" the handler itself raises: event.get('id', 'unknown') in the log line
\* `markets` is the mapping the new StandardizedGame starts with
ParseEvent(event, sport, mkt_index, sel_index, markets) ==
    IF event.t # "obj" THEN [st |-> "raise", game |-> NoGame]
    ELSE LET event_id == PyStr(GetOr(event.id, Str(""))) IN
    IF event_id = "" THEN [st |-> "skip", game |-> NoGame]
    ELSE IF ParticipantsRaise(event.participants) THEN [st |-> "skip", game |-> NoGame]
    ELSE LET away_team == Team(event.participants.items, "away")
             home_team == Team(event.participants.items, "home")
             start_time == IF ScalarTruthy(event.startEventDate)
                           THEN convert_to_datetime(event.startEventDate)
                           ELSE NoDatetime
             parsed == ParseMarkets(IndexGet(mkt_index, Str(event_id)), sel_index, markets)
         IN
    IF ~ScalarTruthy(away_team) \/ ~ScalarTruthy(home_team)
    THEN [st |-> "skip", game |-> NoGame]
    ELSE IF parsed.st = "error" THEN [st |-> "skip", game |-> NoGame]
    ELSE [st |-> "emit",
          game |-> [sport |-> sport,
                    game_id |-> "dk_" \o event_id,
                    home_team |-> home_team,
                    away_team |-> away_team,
                    start_time |-> start_time,
                    status |-> GetOr(event.status, Str("UNKNOWN")),
                    markets |-> parsed.markets]]

----------------------------------------------------------------------------
(* State: one call of DraftKingsDynamicClient.get_games_for_sport and one
   call of DraftKingsParser.parse_games *)

VARIABLES
    pc,                 \* position in get_games_for_sport
    sport_name,         \* its argument
    manifest_data,      \* locals of get_games_for_sport
    template_id,
    numeric_league_id,
    template_data,
    queries,
    target_subcategory_id,
    qi,                 \* index of the loop `for query in queries`
    result,             \* what the call returned, or that it raised
    fetches,            \* the requests issued so far, in order, with their outcome
    ppc,                \* position in parse_games
    raw_data,           \* its arguments
    parse_sport,
    selections_by_market,   \* locals of parse_games
    markets_by_event,
    games,
    ei,                 \* index of the loop `for event in events`
    origin,             \* for each game of `games`, the index of its source event
    parse_result,       \* "returned" or "raised" once parse_games has ended
    default_markets,    \* the default of StandardizedGame.markets held by the class
    other,              \* the locals of a second invocation of parse_games
    call,               \* a single call of one method: its name, arguments and results
    running,            \* Scheduler.running
    start_pc,           \* position in Scheduler.start
    config,             \* what load_config returned: the `intervals` of config.yaml
    si,                 \* index of the loops of Scheduler.start
    workers,            \* the worker threads of Scheduler.threads: position and locals
    runs,               \* the orchestrate calls under way, by calling thread
    calls,              \* the sport_id of every orchestrate call made, by calling thread
    table,              \* the committed rows of the games table
    writer,             \* the threads whose connection holds SQLite's write lock
    threads,            \* the provider threads of one orchestrate call
    results_lock        \* orchestration._results_lock: the threads holding it

resolveVars == <<pc, sport_name, manifest_data, template_id, numeric_league_id,
                 template_data, queries, target_subcategory_id, qi, result, fetches>>

parseVars == <<ppc, raw_data, parse_sport, selections_by_market, markets_by_event,
               games, ei, origin, parse_result, default_markets, other>>

coreVars == <<running, start_pc, config, si, workers, runs, calls, table, writer, threads,
              results_lock>>

\* the state of the provider's client and parser; the state of the scheduler
providerVars == <<resolveVars, parseVars, call>>
schedVars == <<running, start_pc, config, si, workers, calls>>

vars == <<resolveVars, parseVars, call, coreVars>>

Pending == [kind |-> "pending", data |-> NoMarketData]
ReturnedNone == [kind |-> "none", data |-> NoMarketData]
Raised == [kind |-> "raised", data |-> NoMarketData]
Returned(market_data) == [kind |-> "payload", data |-> market_data]

\* one entry of the request log
Fetch(what, cand, resp, got) ==
    [what |-> what, cand |-> cand, transport |-> resp.transport, got |-> got]
Summary(body) == [t |-> body.t, events |-> "absent", id |-> ""]

InitResolve ==
    /\ pc = "manifest"
    /\ sport_name \in Sports
    /\ manifest_data = NoManifest
    /\ template_id = None
    /\ numeric_league_id = None
    /\ template_data = NoTemplate
    /\ queries = <<>>
    /\ target_subcategory_id = None
    /\ qi = 0
    /\ result = Pending
    /\ fetches = <<>>

\* no parse_games call is under way
\* the second invocation before it is started
NotStarted ==
    [ppc |-> "idle", raw_data |-> ListPayload, sport |-> "", games |-> <<>>, ei |-> 0,
     parse_result |-> "pending", sequential |-> FALSE, interleaved |-> FALSE]

\* no single method is being called
NoCall == [fn |-> "", args |-> <<>>, ret |-> <<>>]

\* no scheduler, no orchestrate call, an empty database
CoreIdle ==
    /\ running = FALSE
    /\ start_pc = "idle"
    /\ config = <<>>
    /\ si = <<>>
    /\ workers = <<>>
    /\ runs = <<>>
    /\ calls = <<>>
    /\ table = <<>>
    /\ writer = {}
    /\ threads = <<>>
    /\ results_lock = {}

ParseIdle ==
    /\ default_markets = EmptyIndex
    /\ other = NotStarted
    /\ ppc = "idle"
    /\ raw_data = ListPayload
    /\ parse_sport = ""
    /\ selections_by_market = EmptyIndex
    /\ markets_by_event = EmptyIndex
    /\ games = <<>>
    /\ ei = 0
    /\ origin = <<>>
    /\ parse_result = "pending"

Init == InitResolve /\ ParseIdle /\ call = NoCall /\ CoreIdle

\* lines 213-217
FetchManifestFrom(bodies) ==
    /\ pc = "manifest"
    /\ \E resp \in Responses(bodies, NoManifest) :
         LET data == fetch_json(resp, NoManifest) IN
         /\ fetches' = Append(fetches, Fetch("manifest", 0, resp, Summary(data)))
         /\ manifest_data' = data
         /\ IF Falsy(data)
            THEN pc' = "done" /\ result' = ReturnedNone
            ELSE pc' = "league" /\ result' = result
    /\ UNCHANGED <<sport_name, template_id, numeric_league_id, template_data, queries,
                   target_subcategory_id, qi>>
    /\ UNCHANGED <<parseVars, call, coreVars>>

FetchManifest == FetchManifestFrom(ManifestBodies)

\* lines 219-223
FindLeagueInfo ==
    /\ pc = "league"
    /\ LET r == find_league_info(manifest_data, sport_name) IN
       IF r.st = "raised"
       THEN /\ pc' = "done" /\ result' = Raised
            /\ UNCHANGED <<template_id, numeric_league_id>>
       ELSE /\ template_id' = r.template_id
            /\ numeric_league_id' = r.league_id
            /\ IF ~Truthy(r.template_id) \/ ~Truthy(r.league_id)
               THEN pc' = "done" /\ result' = ReturnedNone
               ELSE pc' = "template" /\ result' = result
    /\ UNCHANGED <<sport_name, manifest_data, template_data, queries,
                   target_subcategory_id, qi, fetches>>
    /\ UNCHANGED <<parseVars, call, coreVars>>

\* lines 225-230
FetchTemplateFrom(bodies) ==
    /\ pc = "template"
    /\ \E resp \in Responses(bodies, NoTemplate) :
         LET data == fetch_json(resp, NoTemplate) IN
         /\ fetches' = Append(fetches, Fetch("template", 0, resp, Summary(data)))
         /\ template_data' = data
         /\ IF Falsy(data)
            THEN pc' = "done" /\ result' = ReturnedNone
            ELSE pc' = "extract" /\ result' = result
    /\ UNCHANGED <<sport_name, manifest_data, template_id, numeric_league_id, queries,
                   target_subcategory_id, qi>>
    /\ UNCHANGED <<parseVars, call, coreVars>>

FetchTemplate == FetchTemplateFrom(TemplateBodies)

\* lines 232-234
ExtractQueries ==
    /\ pc = "extract"
    /\ LET r == extract_all_market_queries(template_data) IN
       IF r.st = "raised"
       THEN pc' = "done" /\ result' = Raised /\ queries' = queries
       ELSE pc' = "subcategory" /\ result' = result /\ queries' = r.queries
    /\ UNCHANGED <<sport_name, manifest_data, template_id, numeric_league_id, template_data,
                   target_subcategory_id, qi, fetches>>
    /\ UNCHANGED <<parseVars, call, coreVars>>

\* lines 236-240
LookupSubcategory ==
    /\ pc = "subcategory"
    /\ target_subcategory_id' = DictGet(SUBCATEGORY_IDS, sport_name)
    /\ IF ~Truthy(target_subcategory_id')
       THEN pc' = "done" /\ result' = ReturnedNone /\ qi' = qi
       ELSE pc' = "loop" /\ result' = result /\ qi' = 1
    /\ UNCHANGED <<sport_name, manifest_data, template_id, numeric_league_id, template_data,
                   queries, fetches>>
    /\ UNCHANGED <<parseVars, call, coreVars>>

\* variant: the single-event test left out
Eligible_NoEventIdTest(query) == Contains(query.eventsQuery.toks, "@subcategoryId")

\* lines 244-251: the candidates the loop fetches
Eligible(query) ==
    /\ ~Contains(query.eventsQuery.toks, "eventId")
    /\ Contains(query.eventsQuery.toks, "@subcategoryId")

\* lines 254-258
ModifiedQuery(query, subcategory_id) ==
    [name |-> query.name,
     eventsQuery |-> Replace(query.eventsQuery.toks, "@subcategoryId", subcategory_id),
     marketsQuery |-> Replace(query.marketsQuery.toks, "@subcategoryId", subcategory_id)]

\* variant: any JSON object is accepted, `events` is not looked at
AcceptMarketData_AnyObject(market_data) ==
    IF Falsy(market_data) THEN "next"
    ELSE IF market_data.t # "obj" THEN "raise"
    ELSE "return"

\* variant: a payload with events is kept only when it is the last candidate's
AcceptMarketData_KeepScanning(market_data) ==
    IF Falsy(market_data) THEN "next"
    ELSE IF market_data.t # "obj" THEN "raise"
    ELSE IF market_data.events = "nonempty" /\ qi = Len(queries) THEN "return"
    ELSE "next"

\* lines 268-270
AcceptMarketData(market_data) ==
    IF Falsy(market_data) THEN "next"
    ELSE IF market_data.t # "obj" THEN "raise"             \* market_data.get
    ELSE IF market_data.events = "nonempty" THEN "return"
    ELSE "next"

\* lines 242-270: one iteration of the loop over the candidates; `after` is
\* the index the `for` statement continues with when the candidate gave no data
IterateCandidate(after) ==
    /\ pc = "loop"
    /\ qi <= Len(queries)
    /\ LET query == queries[qi] IN
       IF query.eventsQuery.t = "num"                       \* 'eventId' in <number>
       THEN pc' = "done" /\ result' = Raised /\ UNCHANGED <<qi, fetches>>
       ELSE IF ~Eligible(query)
       THEN qi' = qi + 1 /\ UNCHANGED <<pc, result, fetches>>
       ELSE IF query.marketsQuery.t = "num"                 \* <number>.replace
       THEN pc' = "done" /\ result' = Raised /\ UNCHANGED <<qi, fetches>>
       ELSE \E resp \in Responses(MarketBodies, NoMarketData) :
              LET market_data == fetch_json(resp, NoMarketData)
                  verdict == AcceptMarketData(market_data)
              IN  /\ fetches' = Append(fetches, Fetch("market", qi, resp, market_data))
                  /\ CASE verdict = "return" ->
                            pc' = "done" /\ result' = Returned(market_data) /\ qi' = qi
                       [] verdict = "raise" ->
                            pc' = "done" /\ result' = Raised /\ qi' = qi
                       [] OTHER ->
                            pc' = pc /\ result' = result /\ qi' = after
    /\ UNCHANGED <<sport_name, manifest_data, template_id, numeric_league_id, template_data,
                   queries, target_subcategory_id>>
    /\ UNCHANGED <<parseVars, call, coreVars>>

\* variant: a candidate that gave no data is requested a second time
TryCandidate_Retry ==
    IterateCandidate(IF \E k \in 1..Len(fetches) :
                            fetches[k].what = "market" /\ fetches[k].cand = qi
                     THEN qi + 1 ELSE qi)

\* variant: a candidate that gave no data is requested again and again
TryCandidate_UntilData == IterateCandidate(qi)

TryCandidate == IterateCandidate(qi + 1)

\* lines 272-273
Exhausted ==
    /\ pc = "loop"
    /\ qi > Len(queries)
    /\ pc' = "done"
    /\ result' = ReturnedNone
    /\ UNCHANGED <<sport_name, manifest_data, template_id, numeric_league_id, template_data,
                   queries, target_subcategory_id, qi, fetches>>
    /\ UNCHANGED <<parseVars, call, coreVars>>

Next ==
    \/ FetchManifest
    \/ FindLeagueInfo
    \/ FetchTemplate
    \/ ExtractQueries
    \/ LookupSubcategory
    \/ TryCandidate
    \/ Exhausted

Spec == Init /\ [][Next]_vars

\* the same call against a manifest whose league group lists two overrides and
\* a template of up to MaxSets Markets descriptors
PairShapes ==
    {Override(NflRoute, Str("T1"), RouteStr(<<"/sport/3", "/league/", "88808">>)),
     Override(NflRoute, Str("T2"), RouteStr(<<"/sport/3">>)),
     Override(NbaRoute, Str("T2"), RouteStr(<<"/sport/4", "/league/", "42648">>))}

PairManifests ==
    {Manifest(List(<<RouteGroup("league", List(<<a, b>>))>>)) : a, b \in PairShapes}

ShortTemplates ==
    {Template(List(s)) :
        s \in SeqsUpTo({DataSet("lines", "Markets", Params(ev, GoodMarketsQuery)) :
                            ev \in {GoodEventsQuery, NoQuery}}, MaxSets)}

FetchPairManifest == FetchManifestFrom(PairManifests)
FetchShortTemplate == FetchTemplateFrom(ShortTemplates)

NextLive ==
    \/ FetchPairManifest
    \/ FindLeagueInfo
    \/ FetchShortTemplate
    \/ ExtractQueries
    \/ LookupSubcategory
    \/ TryCandidate
    \/ Exhausted

\* the call runs on a thread that is always scheduled again, and requests.get is
\* given timeout=10 (line 75): a request ends with an answer, an error or a
\* timeout, so the step that issues it always completes
SpecLive == Init /\ [][NextLive]_vars /\ WF_vars(NextLive)

----------------------------------------------------------------------------
(* DraftKingsParser.parse_games as a state machine *)

\* no get_games_for_sport call is under way
ResolveIdle ==
    /\ pc = "idle"
    /\ sport_name = "NFL"
    /\ manifest_data = NoManifest
    /\ template_id = None
    /\ numeric_league_id = None
    /\ template_data = NoTemplate
    /\ queries = <<>>
    /\ target_subcategory_id = None
    /\ qi = 0
    /\ result = Pending
    /\ fetches = <<>>

ParseStart(payloads) ==
    /\ default_markets = EmptyIndex
    /\ other = NotStarted
    /\ ppc = "start"
    /\ raw_data \in payloads
    /\ parse_sport = "NFL"
    /\ selections_by_market = EmptyIndex
    /\ markets_by_event = EmptyIndex
    /\ games = <<>>
    /\ ei = 0
    /\ origin = <<>>
    /\ parse_result = "pending"

\* lines 71-97: the guards and the two indexes
BuildIndexes ==
    /\ ppc = "start"
    /\ IF raw_data.t # "obj" \/ raw_data.events.t # "list" \/ raw_data.events.items = <<>>
       THEN /\ ppc' = "done" /\ parse_result' = "returned"
            /\ UNCHANGED <<selections_by_market, markets_by_event, ei>>
       ELSE IF ~Iterable(raw_data.selections) \/ ~Iterable(raw_data.markets)
       THEN /\ ppc' = "done" /\ parse_result' = "raised"
            /\ UNCHANGED <<selections_by_market, markets_by_event, ei>>
       ELSE /\ selections_by_market' = GroupBy(raw_data.selections.items, "marketId", EmptyIndex)
            /\ markets_by_event' = GroupBy(raw_data.markets.items, "eventId", EmptyIndex)
            /\ ppc' = "loop" /\ ei' = 1 /\ parse_result' = parse_result
    /\ UNCHANGED <<raw_data, parse_sport, games, origin, default_markets, other>>
    /\ UNCHANGED <<resolveVars, call, coreVars>>

\* variant: new games are put at the front of the list
append_AtFront(list, x) == <<x>> \o list

\* line 176: games.append(game)
append(list, x) == Append(list, x)

\* lines 101-180: one iteration of the loop over the events
ParseNextEvent ==
    /\ ppc = "loop"
    /\ ei <= Len(raw_data.events.items)
    /\ LET r == ParseEvent(raw_data.events.items[ei], parse_sport,
                           markets_by_event, selections_by_market,
                           FieldDefault(default_markets)) IN
       CASE r.st = "emit" ->
                /\ games' = append(games, r.game)
                /\ origin' = append(origin, ei)
                /\ ei' = ei + 1
                /\ default_markets' = DefaultAfter(default_markets, r.game.markets)
                /\ UNCHANGED <<ppc, parse_result>>
         [] r.st = "skip" ->
                /\ ei' = ei + 1
                /\ UNCHANGED <<ppc, parse_result, games, origin, default_markets>>
         [] OTHER ->
                /\ ppc' = "done" /\ parse_result' = "raised"
                /\ UNCHANGED <<ei, games, origin, default_markets>>
    /\ UNCHANGED <<raw_data, parse_sport, selections_by_market, markets_by_event, other>>
    /\ UNCHANGED <<resolveVars, call, coreVars>>

\* lines 182-183
ReturnGames ==
    /\ ppc = "loop"
    /\ ei > Len(raw_data.events.items)
    /\ ppc' = "done"
    /\ parse_result' = "returned"
    /\ UNCHANGED <<raw_data, parse_sport, selections_by_market, markets_by_event, games, ei,
                   origin, default_markets, other>>
    /\ UNCHANGED <<resolveVars, call, coreVars>>

NextParse ==
    \/ BuildIndexes
    \/ ParseNextEvent
    \/ ReturnGames

----------------------------------------------------------------------------
(* Payloads *)

HomeAndAway == List(<<Participant(Str("away"), Str("Team A")),
                      Participant(Str("home"), Str("Team B"))>>)

\* an event as in tests/test_dk_integration.py
TeamEvent(id) == Event(id, Str("2024-01-15T20:00:00Z"), Str("UPCOMING"), HomeAndAway)

PlainOdds == Odds(AmericanStr(<<"+150">>))

\* batches: well-formed events next to events that fail in different places
BatchEvents ==
    {BadEvent,
     TeamEvent(Str("e1")),
     TeamEvent(Str("e2")),
     Event(Str("e1"), None, None, List(<<BadParticipant>>)),
     Event(Str("e2"), None, None, List(<<Participant(Str("home"), Str("Team B"))>>))}

BatchMarkets ==
    {BadMarket,
     Market(Str("m1"), Str("e1"), Str("Moneyline")),
     Market(Str("m2"), Str("e2"), Str("Spread"))}

BatchSelections ==
    {BadSelection,
     Selection(Str("m1"), Str("Team A"), None, PlainOdds),
     Selection(Str("m2"), Str("Team B"), Num("-3.5"), NullOdds)}

ListsUpTo(shapes, n) == {Absent, Null} \cup {List(items) : items \in SeqsUpTo(shapes, n)}

BatchPayloads ==
    {ListPayload}
        \cup {Payload(ev, mk, sel) :
                ev \in ListsUpTo(BatchEvents, MaxEvents),
                mk \in ListsUpTo(BatchMarkets, MaxBatchItems),
                sel \in ListsUpTo(BatchSelections, MaxBatchItems)}

\* markets and selections in every combination, for a string id and a numeric id
MarketEvents == <<TeamEvent(Str("e1")), TeamEvent(Num("7"))>>

MarketShapes ==
    {Market(Str(idn[1]), eventId, Str(idn[2])) :
        idn \in {<<"m1", "Moneyline">>, <<"m2", "Moneyline">>, <<"m2", "Player Props">>},
        eventId \in {Str("e1"), Str("7"), Num("7")}}
        \cup {Market(None, Str("e1"), None)}

SelectionShapes ==
    {Selection(Str("m1"), Str("Team A"), None, PlainOdds),
     Selection(Str("m2"), Str("Team A"), None, PlainOdds),
     Selection(Str("m2"), Str("Team B"), None, PlainOdds),
     Selection(None, Str("Over"), Num("215.5"), Odds(AmericanStr(<<"U+2212", "110">>)))}

MarketPayloads ==
    {Payload(List(MarketEvents), List(mk), List(sel)) :
        mk \in SeqsUpTo(MarketShapes, MaxMarkets),
        sel \in SeqsUpTo(SelectionShapes, MaxSelections)}

\* one event with every combination of participants
ParticipantShapes ==
    {Participant(role, name) :
        role \in {Str("home"), Str("HOME"), Str("away"), Str("Away"), Str("neutral"), None},
        name \in {Str("Team A"), Str("Team B"), Str("")}}
        \cup {BadParticipant, Participant(JsonNull, Str("Team A"))}

TeamPayloads ==
    {Payload(List(<<Event(Str("e1"), None, None, parts)>>), Absent, Absent) :
        parts \in ListsUpTo(ParticipantShapes, MaxParticipants)}

InitParse == ResolveIdle /\ ParseStart(BatchPayloads) /\ call = NoCall /\ CoreIdle
InitMarkets == ResolveIdle /\ ParseStart(MarketPayloads) /\ call = NoCall /\ CoreIdle
InitTeams == ResolveIdle /\ ParseStart(TeamPayloads) /\ call = NoCall /\ CoreIdle

SpecParse == InitParse /\ [][NextParse]_vars
SpecMarkets == InitMarkets /\ [][NextParse]_vars
SpecTeams == InitTeams /\ [][NextParse]_vars

\* one event with one market, its selections in every combination of label,
\* points and odds
FormatPayloads ==
    {Payload(List(<<TeamEvent(Str("e1"))>>),
             List(<<Market(Str("m1"), Str("e1"), Str("Moneyline"))>>),
             List(sel)) :
        sel \in SeqsUpTo({Selection(Str("m1"), label, points, odds) :
                            label \in {Str("Team A"), None},
                            points \in {None, JsonNull, Num("0"), Num("-3.5")},
                            odds \in {PlainOdds,
                                      Odds(AmericanStr(<<"U+2212", "110">>)),
                                      Odds(AmericanStr(<<"U+2212", "1", "U+2212">>)),
                                      Odds(AmericanNum("150"))}},
                        MaxSelections)}

InitFormat == ResolveIdle /\ ParseStart(FormatPayloads) /\ call = NoCall /\ CoreIdle

SpecFormat == InitFormat /\ [][NextParse]_vars

\* events that differ in their start timestamp only
InitTimes ==
    /\ ResolveIdle
    /\ call = NoCall /\ CoreIdle
    /\ ParseStart(
        {Payload(List(ev), Absent, Absent) :
            ev \in SeqsUpTo({Event(Str(id), start, Str("UPCOMING"), HomeAndAway) :
                                id \in {"e1", "e2"},
                                start \in {None, JsonNull, Str(""), Str("2024-01-15T20:00:00Z"),
                                           Str("tomorrow"), Num("1705348800")}},
                            MaxEvents)})

SpecTimes == InitTimes /\ [][NextParse]_vars

\* events that differ in their id only
InitIds ==
    /\ ResolveIdle
    /\ call = NoCall /\ CoreIdle
    /\ ParseStart(
        {Payload(List(ev), Absent, Absent) :
            ev \in SeqsUpTo({TeamEvent(id) :
                                id \in {None, JsonNull, Str(""), Str("e1"), Num("7"), Num("0")}},
                            MaxEvents)})

SpecIds == InitIds /\ [][NextParse]_vars

----------------------------------------------------------------------------
(* Two invocations of parse_games, the second started at any moment: after the
   first has returned (two calls in a row) or while it runs (another thread).
   Each has its own locals; StandardizedGame is the one object both use. *)

OtherEvents == other.raw_data.events.items

\* a second call of parse_games begins
OtherStart ==
    /\ other.ppc = "idle"
    /\ ppc # "idle"
    /\ \E payload \in {raw_data} \cup {Payload(List(<<TeamEvent(Str("e1"))>>), Absent, Absent)},
          sport \in {"NFL", "NBA"} :
          other' = [other EXCEPT !.ppc = "start", !.raw_data = payload, !.sport = sport,
                                 !.sequential = (ppc = "done")]
    /\ UNCHANGED <<ppc, raw_data, parse_sport, selections_by_market, markets_by_event, games,
                   ei, origin, parse_result, default_markets>>
    /\ UNCHANGED <<resolveVars, call, coreVars>>

\* lines 71-99 in the second invocation
OtherBuildIndexes ==
    /\ other.ppc = "start"
    /\ other' =
          IF other.raw_data.t # "obj" \/ other.raw_data.events.t # "list" \/ OtherEvents = <<>>
          THEN [other EXCEPT !.ppc = "done", !.parse_result = "returned"]
          ELSE IF ~Iterable(other.raw_data.selections) \/ ~Iterable(other.raw_data.markets)
          THEN [other EXCEPT !.ppc = "done", !.parse_result = "raised"]
          ELSE [other EXCEPT !.ppc = "loop", !.ei = 1]
    /\ UNCHANGED <<ppc, raw_data, parse_sport, selections_by_market, markets_by_event, games,
                   ei, origin, parse_result, default_markets>>
    /\ UNCHANGED <<resolveVars, call, coreVars>>

\* lines 101-180 in the second invocation
OtherNextEvent ==
    /\ other.ppc = "loop"
    /\ other.ei <= Len(OtherEvents)
    /\ LET r == ParseEvent(OtherEvents[other.ei], other.sport,
                           GroupBy(other.raw_data.markets.items, "eventId", EmptyIndex),
                           GroupBy(other.raw_data.selections.items, "marketId", EmptyIndex),
                           FieldDefault(default_markets))
           between == other.interleaved \/ (ppc = "loop" /\ 1 < ei /\ ei <= Len(raw_data.events.items))
       IN
       CASE r.st = "emit" ->
                /\ other' = [other EXCEPT !.games = append(other.games, r.game),
                                          !.ei = other.ei + 1, !.interleaved = between]
                /\ default_markets' = DefaultAfter(default_markets, r.game.markets)
         [] r.st = "skip" ->
                /\ other' = [other EXCEPT !.ei = other.ei + 1, !.interleaved = between]
                /\ UNCHANGED default_markets
         [] OTHER ->
                /\ other' = [other EXCEPT !.ppc = "done", !.parse_result = "raised"]
                /\ UNCHANGED default_markets
    /\ UNCHANGED <<ppc, raw_data, parse_sport, selections_by_market, markets_by_event, games,
                   ei, origin, parse_result>>
    /\ UNCHANGED <<resolveVars, call, coreVars>>

\* lines 182-183 in the second invocation
OtherReturn ==
    /\ other.ppc = "loop"
    /\ other.ei > Len(OtherEvents)
    /\ other' = [other EXCEPT !.ppc = "done", !.parse_result = "returned"]
    /\ UNCHANGED <<ppc, raw_data, parse_sport, selections_by_market, markets_by_event, games,
                   ei, origin, parse_result, default_markets>>
    /\ UNCHANGED <<resolveVars, call, coreVars>>

NextTwo ==
    \/ NextParse
    \/ OtherStart
    \/ OtherBuildIndexes
    \/ OtherNextEvent
    \/ OtherReturn

\* payloads of one or two events, with and without markets
TwoPayloads ==
    {Payload(List(ev), List(mk), List(sel)) :
        ev \in {<<TeamEvent(Str("e1"))>>,
                <<TeamEvent(Str("e1")), TeamEvent(Str("e2"))>>,
                <<TeamEvent(Str("e2")), TeamEvent(Str("e1"))>>,
                <<TeamEvent(Str("e1")), BadEvent>>},
        mk \in {<<>>,
                <<Market(Str("m1"), Str("e1"), Str("Moneyline"))>>,
                <<Market(Str("m1"), Str("e1"), Str("Moneyline")),
                  Market(Str("m2"), Str("e2"), Str("Spread"))>>},
        sel \in {<<>>, <<Selection(Str("m1"), Str("Team A"), None, PlainOdds)>>}}

InitTwo == ResolveIdle /\ ParseStart(TwoPayloads) /\ call = NoCall /\ CoreIdle

SpecTwo == InitTwo /\ [][NextTwo]_vars

----------------------------------------------------------------------------
(* DraftKingsProvider.fetch_odds: the sport id is mapped to a name, the client
   resolves the market data, the parser turns it into games *)

\* DraftKingsProvider.get_sports_mapping
get_sports_mapping == [i \in {"100", "200", "300"} |->
                          CASE i = "100" -> "NFL" [] i = "200" -> "NBA" [] OTHER -> "MLB"]

\* variant: the mapping is keyed by sport name
UnknownSport_ByName(sport_id) ==
    sport_id \notin {get_sports_mapping[i] : i \in DOMAIN get_sports_mapping}

\* __init__.py 60-64: `if not sport_name` after get_sports_mapping().get(sport_id)
UnknownSport(sport_id) == sport_id \notin DOMAIN get_sports_mapping

\* what the body of fetch_odds ends with: the list it returns or an exception
GamesList(list) == [kind |-> "list", games |-> list]
Exception == [kind |-> "raised", games |-> <<>>]

\* variant: the handler lets the exception go on to the caller
Caught_Reraised(outcome) == outcome

\* lines 66 and 90-92: `except Exception` turns every exception into []
Caught(outcome) == IF outcome.kind = "raised" THEN GamesList(<<>>) ELSE outcome

\* market data with a non-empty `events`, as the parser sees it
OddsPayloads ==
    {Payload(List(<<TeamEvent(Str("e1"))>>),
             List(<<Market(Str("m1"), Str("e1"), Str("Moneyline"))>>),
             List(<<Selection(Str("m1"), Str("Team A"), None, PlainOdds)>>)),
     Payload(List(<<BadEvent>>), Absent, Absent),
     Payload(List(<<TeamEvent(Str("e1"))>>), Absent, Null)}

\* lines 68-76: the mapping, and the call of get_games_for_sport
FetchOddsStart ==
    /\ call.fn = "fetch_odds"
    /\ call.ret = <<>>
    /\ pc = "idle"
    /\ IF UnknownSport(call.args[1])
       THEN /\ call' = [call EXCEPT !.ret = <<Caught(GamesList(<<>>))>>]
            /\ UNCHANGED <<pc, sport_name>>
       ELSE /\ sport_name' = get_sports_mapping[call.args[1]]
            /\ pc' = "manifest"
            /\ UNCHANGED call
    /\ UNCHANGED <<manifest_data, template_id, numeric_league_id, template_data, queries,
                   target_subcategory_id, qi, result, fetches>>
    /\ UNCHANGED <<parseVars, coreVars>>

\* lines 76-85: get_games_for_sport has ended
FetchOddsParse ==
    /\ call.fn = "fetch_odds"
    /\ call.ret = <<>>
    /\ pc = "done"
    /\ ppc = "idle"
    /\ CASE result.kind = "raised" ->
                /\ call' = [call EXCEPT !.ret = <<Caught(Exception)>>]
                /\ UNCHANGED <<ppc, raw_data, parse_sport>>
         [] result.kind = "none" ->
                /\ call' = [call EXCEPT !.ret = <<Caught(GamesList(<<>>))>>]
                /\ UNCHANGED <<ppc, raw_data, parse_sport>>
         [] OTHER ->
                /\ ppc' = "start"
                /\ raw_data' \in OddsPayloads
                /\ parse_sport' = sport_name
                /\ UNCHANGED call
    /\ UNCHANGED <<selections_by_market, markets_by_event, games, ei, origin, parse_result,
                   default_markets, other>>
    /\ UNCHANGED <<resolveVars, coreVars>>

\* lines 85-92: parse_games has ended
FetchOddsReturn ==
    /\ call.fn = "fetch_odds"
    /\ call.ret = <<>>
    /\ ppc = "done"
    /\ call' = [call EXCEPT !.ret = <<Caught(IF parse_result = "raised"
                                             THEN Exception
                                             ELSE GamesList(games))>>]
    /\ UNCHANGED <<resolveVars, parseVars, coreVars>>

NextOdds ==
    \/ FetchOddsStart
    \/ Next
    \/ FetchOddsParse
    \/ NextParse
    \/ FetchOddsReturn

\* the sport ids a caller passes: mapped with a route, mapped without one,
\* unmapped, and the sport name that is the default of orchestrate
InitOdds ==
    /\ ResolveIdle
    /\ ParseIdle
    /\ call \in {[fn |-> "fetch_odds", args |-> <<sport_id>>, ret |-> <<>>] :
                    sport_id \in {"100", "300", "999", "NFL"}}
    /\ CoreIdle

SpecOdds == InitOdds /\ [][NextOdds]_vars

----------------------------------------------------------------------------
(* construct_market_url called on its own: one candidate, two league ids *)

UrlArgs ==
    {<<[name |-> "Markets", eventsQuery |-> ev, marketsQuery |-> mk], a, b>> :
        ev \in SeqsUpTo({"@leagueId", "@page.leagueId", "leagueId=", "@subcategoryId"},
                        MaxQueryLen),
        mk \in {<<>>, <<"@leagueId">>, <<"id=", "@page.leagueId", "@leagueId">>},
        a \in {"88808", "42648", "8"}, b \in {"88808", "42648", "8"}}

\* the URL for the first league id, for the second, and for the first again
ConstructMarketUrl ==
    /\ call.fn = "construct_market_url"
    /\ call.ret = <<>>
    /\ call' = [call EXCEPT !.ret = <<construct_market_url(call.args[1], call.args[2]),
                                      construct_market_url(call.args[1], call.args[3]),
                                      construct_market_url(call.args[1], call.args[2])>>]
    /\ UNCHANGED <<resolveVars, parseVars, coreVars>>

InitUrl ==
    /\ ResolveIdle
    /\ ParseIdle
    /\ call \in {[fn |-> "construct_market_url", args |-> a, ret |-> <<>>] : a \in UrlArgs}
    /\ CoreIdle

SpecUrl == InitUrl /\ [][ConstructMarketUrl]_vars

----------------------------------------------------------------------------
(* Properties of get_games_for_sport *)

FetchIndices == 1..Len(fetches)
MarketFetchesOf(i) == {k \in FetchIndices : fetches[k].what = "market" /\ fetches[k].cand = i}

\* a payload whose `events` array is empty or missing
NoEvents(got) == got.t \in {"obj", "falsy"} /\ got.events \in {"absent", "empty"}
NonEmptyEvents(got) == got.t = "obj" /\ got.events = "nonempty"

\* the eligibility rule of the data model, on a candidate's events query string
RuleEligible(query) ==
    /\ query.eventsQuery.t = "str"
    /\ \A i \in 1..Len(query.eventsQuery.toks) : query.eventsQuery.toks[i] # "eventId"
    /\ \E i \in 1..Len(query.eventsQuery.toks) : query.eventsQuery.toks[i] = "@subcategoryId"
RuleIneligible(query) ==
    /\ query.eventsQuery.t = "str"
    /\ ~RuleEligible(query)

LoopReached == Truthy(target_subcategory_id)

\* C1: when every eligible candidate was fetched and each fetch gave a payload
\* whose events array is empty or missing, the call returns None; a returned
\* payload always has a non-empty events array.
C1_ExhaustionReturnsNone ==
    /\ result.kind = "payload" => NonEmptyEvents(result.data)
    /\ ( /\ pc = "done"
         /\ LoopReached
         /\ \A i \in 1..Len(queries) :
               \/ RuleIneligible(queries[i])
               \/ \E k \in MarketFetchesOf(i) : NoEvents(fetches[k].got) )
       => result.kind = "none"

\* two candidates fetched, the first with an empty events array, and None returned
C1_Witness ==
    /\ pc = "done"
    /\ result.kind = "none"
    /\ Len(fetches) >= 4
    /\ fetches[3].got = MarketData("empty", "p0")
    /\ \A k \in 3..Len(fetches) : NoEvents(fetches[k].got)

\* C2: candidates are fetched in template order, none of the eligible ones is
\* passed over, the first fetch that yields a non-empty events array ends the
\* call with that payload, and no fetch follows it.
C2_FirstNonEmptyWins ==
    /\ \A k \in FetchIndices :
          (fetches[k].what = "market" /\ NonEmptyEvents(fetches[k].got))
              => /\ k = Len(fetches)
                 /\ pc = "done"
                 /\ result = [kind |-> "payload", data |-> fetches[k].got]
    /\ \A j, k \in FetchIndices :
          (j < k /\ fetches[j].what = "market" /\ fetches[k].what = "market")
              => fetches[j].cand < fetches[k].cand
    /\ \A k \in FetchIndices :
          fetches[k].what = "market"
              => \A i \in 1..(fetches[k].cand - 1) :
                    RuleEligible(queries[i]) => MarketFetchesOf(i) # {}
    /\ result.kind = "payload"
          => /\ fetches # <<>>
             /\ fetches[Len(fetches)].what = "market"
             /\ result.data = fetches[Len(fetches)].got

\* the second of three eligible candidates supplied the payload, the third was
\* never requested
C2_Witness ==
    /\ result.kind = "payload"
    /\ Len(queries) = 3
    /\ \A i \in 1..3 : RuleEligible(queries[i])
    /\ Len(fetches) = 4
    /\ fetches[3].cand = 1
    /\ fetches[4].cand = 2
    /\ MarketFetchesOf(3) = {}

\* C3: a market-data fetch is issued only for a candidate whose events query
\* has no `eventId` and has the `@subcategoryId` placeholder, and only such a
\* candidate supplies the returned payload.
C3_OnlyEligibleFetched ==
    /\ \A k \in FetchIndices :
          fetches[k].what = "market"
              => /\ fetches[k].cand \in 1..Len(queries)
                 /\ RuleEligible(queries[fetches[k].cand])
    /\ result.kind = "payload"
          => \E k \in FetchIndices :
                /\ fetches[k].what = "market"
                /\ fetches[k].got = result.data
                /\ RuleEligible(queries[fetches[k].cand])

\* a single-event candidate and one without the placeholder were passed over
\* and the third candidate was fetched
C3_Witness ==
    /\ Len(queries) = 3
    /\ \E i \in 1..Len(queries[1].eventsQuery.toks) : queries[1].eventsQuery.toks[i] = "eventId"
    /\ queries[2].eventsQuery = Query(<<"leagueId=", "@page.leagueId">>)
    /\ MarketFetchesOf(1) = {} /\ MarketFetchesOf(2) = {}
    /\ MarketFetchesOf(3) # {}

FetchFailed(f) == f.got.t \in {"none", "falsy"}

\* C4: the stages run in the order manifest fetch, id resolution, template
\* fetch, candidate enumeration, subcategory lookup, candidate fetches; a
\* failed stage ends the call with None and no later stage issues a fetch.
C4_StagesInOrder ==
    /\ \A k \in FetchIndices :
          /\ fetches[k].what = "manifest" <=> k = 1
          /\ fetches[k].what = "template" <=> k = 2
          /\ fetches[k].what = "market" <=> k >= 3
    /\ pc = "manifest" => fetches = <<>>
    /\ pc \in {"league", "template"} => Len(fetches) = 1
    /\ pc \in {"extract", "subcategory"} => Len(fetches) = 2
    /\ pc = "loop" => Len(fetches) >= 2 /\ LoopReached
    \* a failed fetch is the last one and the call has returned None
    /\ \A k \in FetchIndices :
          (k <= 2 /\ FetchFailed(fetches[k]))
              => k = Len(fetches) /\ pc = "done" /\ result.kind = "none"
    \* no template fetch without both ids
    /\ Len(fetches) >= 2 => Truthy(template_id) /\ Truthy(numeric_league_id)
    /\ ( /\ pc \notin {"manifest", "league"}
         /\ ~FetchFailed(fetches[1])
         /\ LET r == find_league_info(manifest_data, sport_name) IN
              r.st # "raised" /\ (~Truthy(r.template_id) \/ ~Truthy(r.league_id)) )
         => pc = "done" /\ result.kind = "none" /\ Len(fetches) = 1
    \* no candidate fetch without candidates or without a subcategory id
    /\ Len(fetches) >= 3 => queries # <<>> /\ sport_name \in DOMAIN SUBCATEGORY_IDS
    /\ (pc = "done" /\ LoopReached /\ queries = <<>>) => result.kind = "none"

\* the template request timed out: None, and no candidate was requested
C4_Witness ==
    /\ pc = "done"
    /\ result.kind = "none"
    /\ Len(fetches) = 2
    /\ fetches[2].what = "template"
    /\ fetches[2].transport = "timeout"

\* C5: within one call the manifest is requested at most once, the template at
\* most once and each candidate's endpoint at most once.
C5_NoRetry ==
    /\ Cardinality({k \in FetchIndices : fetches[k].what = "manifest"}) <= 1
    /\ Cardinality({k \in FetchIndices : fetches[k].what = "template"}) <= 1
    /\ \A i \in 1..Len(queries) : Cardinality(MarketFetchesOf(i)) <= 1
    /\ \A k \in FetchIndices : fetches[k].what = "market" => fetches[k].cand \in 1..Len(queries)

\* a candidate's request timed out and the next request went to another candidate
C5_Witness ==
    /\ Len(fetches) >= 4
    /\ fetches[3].transport = "timeout"
    /\ fetches[4].cand # fetches[3].cand

\* C6 as stated: a call in which some fetch ended in a transport failure
\* returns None (calls that raise are left aside).
C6_TransportFailureFailsCall ==
    ( /\ pc = "done"
      /\ result.kind # "raised"
      /\ \E k \in FetchIndices : fetches[k].transport # "ok" )
    => result.kind = "none"

\* C6 amended: a transport failure gives an absent fetch result; for the
\* manifest and the template the call returns None at once; for a candidate
\* the loop goes on with the next candidate, the failed fetch never supplies
\* the payload, and a payload is returned only from a fetch that succeeded
\* with a non-empty events array.
C6_TransportFailureAbsent ==
    /\ \A k \in FetchIndices :
          fetches[k].transport # "ok"
              => /\ fetches[k].got.t = "none"
                 /\ fetches[k].what \in {"manifest", "template"}
                       => k = Len(fetches) /\ pc = "done" /\ result.kind = "none"
                 /\ (fetches[k].what = "market" /\ k = Len(fetches))
                       => \/ pc = "loop" /\ qi > fetches[k].cand
                          \/ pc = "done" /\ result.kind \in {"none", "raised"}
                 /\ (fetches[k].what = "market" /\ k < Len(fetches))
                       => fetches[k + 1].cand > fetches[k].cand
    /\ result.kind = "payload"
          => \E k \in FetchIndices :
                /\ fetches[k].transport = "ok"
                /\ NonEmptyEvents(fetches[k].got)
                /\ result.data = fetches[k].got

\* the first candidate's request failed and the second supplied the payload
C6_Witness ==
    /\ pc = "done"
    /\ result.kind = "payload"
    /\ Len(fetches) = 4
    /\ fetches[3].transport = "http_error"
    /\ fetches[4].transport = "ok"

\* C7: get_games_for_sport returns a payload or None and never raises.
C7_NeverRaises == result.kind # "raised"

----------------------------------------------------------------------------
(* Properties of parse_games *)

Events == raw_data.events.items
GameIndices == 1..Len(games)

\* the event at position i yields a game when processed on its own
YieldsGame(i) ==
    ParseEvent(Events[i], parse_sport,
               GroupBy(raw_data.markets.items, "eventId", EmptyIndex),
               GroupBy(raw_data.selections.items, "marketId", EmptyIndex),
               EmptyIndex).st = "emit"

\* C8: when the markets and selections arrays hold objects, a failure in one
\* event only skips that event: parse_games returns and every event that
\* yields a game on its own has its game in the output.
C8_EventFailureIsLocal ==
    ( /\ ppc = "done"
      /\ raw_data.t = "obj"
      /\ raw_data.events.t = "list"
      /\ Iterable(raw_data.markets)
      /\ Iterable(raw_data.selections) )
    => /\ parse_result = "returned"
       /\ \A i \in 1..Len(Events) :
             YieldsGame(i) => \E g \in GameIndices : origin[g] = i

\* the selections of a market, as {label, odds} records in payload order
RECURSIVE RecordsOf(_, _)
RecordsOf(selections, market_id) ==
    IF selections = <<>> THEN <<>>
    ELSE IF Head(selections).marketId = market_id
         THEN <<ParseSelection(Head(selections))>> \o RecordsOf(Tail(selections), market_id)
         ELSE RecordsOf(Tail(selections), market_id)

MarketIndices == 1..Len(raw_data.markets.items)
MarketAt(k) == raw_data.markets.items[k]
NameOf(mkt) == IF mkt.name.t = "none" THEN "Unknown" ELSE mkt.name.v

\* the market refers to the event: its eventId is the event's id as a string,
\* the form in which the id enters game_id
RefersTo(mkt, event) == mkt.eventId = Str(PyStr(event.id))

Attached(g, mkt) ==
    /\ NameOf(mkt) \in DOMAIN games[g].markets
    /\ games[g].markets[NameOf(mkt)] = RecordsOf(raw_data.selections.items, mkt.id)

\* C9 as stated: every market of an emitted event is in the game's mapping
\* under its display name, with exactly its own selections.
C9_EveryMarketAttached ==
    ppc = "done" =>
        \A g \in GameIndices : \A k \in MarketIndices :
            RefersTo(MarketAt(k), Events[origin[g]]) => Attached(g, MarketAt(k))

\* C9 amended: the same for every market that is the last one of its event
\* with its display name.
C9_LastMarketAttached ==
    ppc = "done" =>
        \A g \in GameIndices : \A k \in MarketIndices :
            ( /\ RefersTo(MarketAt(k), Events[origin[g]])
              /\ \A j \in MarketIndices :
                    (j > k /\ RefersTo(MarketAt(j), Events[origin[g]]))
                        => NameOf(MarketAt(j)) # NameOf(MarketAt(k)) )
            => Attached(g, MarketAt(k))

\* a game carries a player-prop market with its two selections in payload order
C9_Witness ==
    /\ ppc = "done"
    /\ \E g \in GameIndices :
          /\ "Player Props" \in DOMAIN games[g].markets
          /\ games[g].markets["Player Props"]
                = <<[label |-> "Team B", odds |-> Str("+150")],
                    [label |-> "Team A", odds |-> Str("+150")]>>

HomeRoles == {"home", "Home", "HOME"}
AwayRoles == {"away", "Away", "AWAY"}
HasRole(participant, roles) ==
    participant.t = "obj" /\ participant.venueRole.t = "str" /\ participant.venueRole.v \in roles
Named(participant) == participant.name.t = "str" /\ participant.name.v # ""

\* the participants are all well-formed and the last one of each role is named
BothSidesNamed(parts) ==
    /\ \A i \in 1..Len(parts) : parts[i].t = "obj" /\ parts[i].venueRole.t \in {"str", "none"}
    /\ \A roles \in {HomeRoles, AwayRoles} :
          \E i \in 1..Len(parts) :
             /\ HasRole(parts[i], roles) /\ Named(parts[i])
             /\ \A j \in (i + 1)..Len(parts) : ~HasRole(parts[j], roles)

\* C10: a game is emitted only for an event with a home and an away
\* participant (in any letter case), its home_team and away_team are names of
\* such participants, and an event lacking either role yields no game; an
\* event whose sides are both named does yield one.
C10_HomeAndAwayRequired ==
    ppc = "done" =>
        /\ \A g \in GameIndices :
              LET parts == Events[origin[g]].participants.items IN
              /\ \E i \in 1..Len(parts) :
                    HasRole(parts[i], HomeRoles) /\ parts[i].name = games[g].home_team
              /\ \E i \in 1..Len(parts) :
                    HasRole(parts[i], AwayRoles) /\ parts[i].name = games[g].away_team
              /\ games[g].home_team.t = "str" /\ games[g].away_team.t = "str"
        /\ \A e \in 1..Len(Events) :
              LET parts == Events[e].participants.items IN
              /\ ( \/ \A i \in 1..Len(parts) : ~HasRole(parts[i], HomeRoles)
                   \/ \A i \in 1..Len(parts) : ~HasRole(parts[i], AwayRoles) )
                 => \A g \in GameIndices : origin[g] # e
              /\ (Events[e].participants.t = "list" /\ BothSidesNamed(parts))
                 => \E g \in GameIndices : origin[g] = e

\* a game emitted for an event whose roles are spelled HOME and Away
C10_Witness ==
    /\ ppc = "done"
    /\ Len(games) = 1
    /\ Events[1].participants.items
          = <<Participant(Str("HOME"), Str("Team B")), Participant(Str("Away"), Str("Team A")),
              Participant(Str("neutral"), Str("Team A"))>>
    /\ games[1].home_team = Str("Team B")
    /\ games[1].away_team = Str("Team A")

\* C11: the returned list follows the events array: the source events of the
\* games are strictly increasing positions of the array (at most one game per
\* event, same relative order) and each game carries its source event's id.
C11_EventOrder ==
    /\ Len(origin) = Len(games)
    /\ \A g \in GameIndices :
          /\ origin[g] \in 1..Len(Events)
          /\ games[g].game_id = "dk_" \o PyStr(Events[origin[g]].id)
          /\ \A h \in GameIndices : g < h => origin[g] < origin[h]

\* two games returned in payload order, which is not the order of their ids
C11_Witness ==
    /\ ppc = "done"
    /\ parse_result = "returned"
    /\ Len(games) = 2
    /\ games[1].game_id = "dk_e2"
    /\ games[2].game_id = "dk_e1"

\* what a call gives back: the list it returns, or that it raised
Output(res, list) == [result |-> res, games |-> IF res = "returned" THEN list ELSE <<>>]

\* the games of events[i..], computed for one call on its own
RECURSIVE GamesAlone(_, _, _, _, _)
GamesAlone(events, i, sport, mkt_index, sel_index) ==
    IF i > Len(events) THEN [result |-> "returned", games |-> <<>>]
    ELSE LET r == ParseEvent(events[i], sport, mkt_index, sel_index, EmptyIndex)
             rest == GamesAlone(events, i + 1, sport, mkt_index, sel_index)
         IN  CASE r.st = "raise" -> [result |-> "raised", games |-> <<>>]
               [] r.st = "skip" -> rest
               [] OTHER -> Output(rest.result, <<r.game>> \o rest.games)

\* parse_games(payload, sport) as a function of its two arguments
ParseGamesAlone(payload, sport) ==
    IF payload.t # "obj" \/ payload.events.t # "list" \/ payload.events.items = <<>>
    THEN [result |-> "returned", games |-> <<>>]
    ELSE IF ~Iterable(payload.selections) \/ ~Iterable(payload.markets)
    THEN [result |-> "raised", games |-> <<>>]
    ELSE GamesAlone(payload.events.items, 1, sport,
                    GroupBy(payload.markets.items, "eventId", EmptyIndex),
                    GroupBy(payload.selections.items, "marketId", EmptyIndex))

\* C12: a call made after another call has ended gives what it gives on its
\* own, and on the same payload and sport it gives what the earlier call gave.
C12_Idempotent ==
    (ppc = "done" /\ other.ppc = "done" /\ other.sequential)
    => /\ Output(other.parse_result, other.games) = ParseGamesAlone(other.raw_data, other.sport)
       /\ (other.raw_data = raw_data /\ other.sport = parse_sport)
             => Output(other.parse_result, other.games) = Output(parse_result, games)

\* the same payload parsed twice in a row, games with markets both times
C12_Witness ==
    /\ ppc = "done"
    /\ other.ppc = "done"
    /\ other.sequential
    /\ other.raw_data = raw_data
    /\ other.sport = parse_sport
    /\ Len(other.games) > 1
    /\ other.games = games
    /\ DOMAIN games[1].markets = {"Moneyline"}
    /\ DOMAIN games[Len(games)].markets = {}

----------------------------------------------------------------------------
(* Properties of find_league_info *)

Groups == manifest_data.routes.items

\* the manifest has the shape of a RouteManifest wherever the scan looks: the
\* route groups are objects, and a league group holds a list of override
\* objects whose route is absent or a string
ValidManifest ==
    /\ manifest_data.t = "obj"
    /\ manifest_data.routes.t # "null"
    /\ \A g \in 1..Len(Groups) :
          /\ Groups[g].t = "obj"
          /\ Groups[g].key = "league" =>
                /\ Groups[g].overrides.t # "null"
                /\ \A o \in 1..Len(Groups[g].overrides.items) :
                      /\ Groups[g].overrides.items[o].t = "obj"
                      /\ Groups[g].overrides.items[o].route.t # "null"

\* positions <<group, override>> of the overrides of league groups whose
\* seoRoute is the sport's configured path
Matches ==
    UNION {{<<g, o>> : o \in {o \in 1..Len(Groups[g].overrides.items) :
                                 Groups[g].overrides.items[o].seoRoute = LEAGUE_ROUTES[sport_name]}} :
             g \in {g \in 1..Len(Groups) : Groups[g].key = "league"}}

FirstMatch ==
    LET m == CHOOSE m \in Matches :
                \A n \in Matches : m[1] < n[1] \/ (m[1] = n[1] /\ m[2] <= n[2])
    IN  Groups[m[1]].overrides.items[m[2]]

\* the piece of the route that follows the first /league/
Segment(toks) ==
    LET i == CHOOSE i \in 1..Len(toks) :
                toks[i] = "/league/" /\ \A j \in 1..(i - 1) : toks[j] # "/league/"
    IN  IF i = Len(toks) \/ toks[i + 1] = "/league/" THEN "" ELSE toks[i + 1]

\* find_league_info has been called and has returned
LeagueInfoReturned ==
    /\ pc \notin {"idle", "manifest", "league"}
    /\ ~Falsy(manifest_data)

\* C13: on a well-shaped manifest, find_league_info returns the templateId of
\* the (first) league override whose seoRoute is the sport's configured path
\* and the piece of its route after /league/ (None when the route has no
\* /league/); without such an override, or for a sport without a configured
\* path, it returns (None, None).
C13_LeagueInfo ==
    LeagueInfoReturned =>
        IF sport_name \notin DOMAIN LEAGUE_ROUTES
        THEN template_id = None /\ numeric_league_id = None
        ELSE ValidManifest =>
                IF Matches = {}
                THEN template_id = None /\ numeric_league_id = None
                ELSE /\ template_id = FirstMatch.templateId
                     /\ numeric_league_id =
                            IF \E i \in 1..Len(FirstMatch.route.toks) :
                                    FirstMatch.route.toks[i] = "/league/"
                            THEN Str(Segment(FirstMatch.route.toks))
                            ELSE None

\* the NFL override was found and gave both ids
C13_Witness ==
    /\ LeagueInfoReturned
    /\ sport_name = "NFL"
    /\ ValidManifest
    /\ Matches # {}
    /\ template_id = Str("T1")
    /\ numeric_league_id = Str("88808")

----------------------------------------------------------------------------
(* Properties of construct_market_url *)

Placeholders == {"@leagueId", "@page.leagueId"}

\* the query with each placeholder piece replaced by the league id
Filled(query, league_id) ==
    Join([i \in 1..Len(query) |-> IF query[i] \in Placeholders THEN league_id ELSE query[i]])

\* C14: the same candidate and league id give the same URL; two different
\* league ids give different URLs, each with its league id as templateVars and
\* in place of every @leagueId and @page.leagueId of both queries.
C14_UrlInjective ==
    (call.fn = "construct_market_url" /\ call.ret # <<>>) =>
        LET candidate == call.args[1] IN
        /\ call.ret[1] = call.ret[3]
        /\ call.args[2] # call.args[3] => call.ret[1] # call.ret[2]
        /\ \A k \in 1..(Len(call.args) - 1) :
              /\ call.ret[k].templateVars = call.args[k + 1]
              /\ call.ret[k].eventsQuery = Filled(candidate.eventsQuery, call.args[k + 1])
              /\ call.ret[k].marketsQuery = Filled(candidate.marketsQuery, call.args[k + 1])
              /\ call.ret[k].base = MARKET_URL_BASE

\* two league ids, a candidate with both forms of the placeholder
C14_Witness ==
    /\ call.fn = "construct_market_url"
    /\ call.ret # <<>>
    /\ call.args[1].eventsQuery = <<"@leagueId", "@page.leagueId">>
    /\ call.args[2] = "88808"
    /\ call.args[3] = "42648"
    /\ call.ret[1].eventsQuery = "8880888808"
    /\ call.ret[2].eventsQuery = "4264842648"

----------------------------------------------------------------------------
(* Properties of the selection records *)

SourceSelections == raw_data.selections.items

\* the game of the single event has one record per selection, in order
FormatDone ==
    /\ ppc = "done"
    /\ Len(games) = 1
    /\ Len(games[1].markets["Moneyline"]) = Len(SourceSelections)

SourceLabel(sel) == IF sel.label.t = "none" THEN "Unknown" ELSE sel.label.v

\* C15: the output label is the source label followed by " (<points>)" exactly
\* when the selection has a points value other than null, 0 included; without
\* points the label is unchanged.
C15_LabelWithPoints ==
    ppc = "done" =>
        /\ FormatDone
        /\ \A i \in 1..Len(SourceSelections) :
              LET sel == SourceSelections[i]
                  out == games[1].markets["Moneyline"][i].label
              IN  IF sel.points.t = "num"
                  THEN out = SourceLabel(sel) \o " (" \o sel.points.v \o ")"
                  ELSE out = SourceLabel(sel)

\* points 0 is appended, a selection without points keeps its label
C15_Witness ==
    /\ FormatDone
    /\ Len(SourceSelections) > 1
    /\ SourceSelections[1].points = Num("0")
    /\ games[1].markets["Moneyline"][1].label = "Team A (0)"
    /\ SourceSelections[Len(SourceSelections)].points = None
    /\ games[1].markets["Moneyline"][Len(SourceSelections)].label = "Team A"

\* the odds string with every minus sign piece written as a hyphen
Hyphenated(toks) == Join([i \in 1..Len(toks) |-> IF toks[i] = "U+2212" THEN "-" ELSE toks[i]])

\* C16: for a selection whose american odds is a string, the output odds is
\* that string with every U+2212 replaced by "-" and nothing else changed.
C16_MinusNormalised ==
    ppc = "done" =>
        /\ FormatDone
        /\ \A i \in 1..Len(SourceSelections) :
              LET american == SourceSelections[i].displayOdds.american
                  out == games[1].markets["Moneyline"][i].odds
              IN  american.t = "str" => out = Str(Hyphenated(american.toks))

\* "U+2212 110" became "-110" and "+150" stayed as it was
C16_Witness ==
    /\ FormatDone
    /\ Len(SourceSelections) > 1
    /\ SourceSelections[1].displayOdds.american = AmericanStr(<<"U+2212", "1", "U+2212">>)
    /\ games[1].markets["Moneyline"][1].odds = Str("-1-")
    /\ SourceSelections[Len(SourceSelections)].displayOdds = PlainOdds
    /\ games[1].markets["Moneyline"][Len(SourceSelections)].odds = Str("+150")

----------------------------------------------------------------------------
(* Properties of the game fields *)

\* a start timestamp that is present but is not an ISO timestamp
Unparseable(start) ==
    /\ start.t \in {"str", "num"}
    /\ start.v \notin {"", "0"}
    /\ start.v \notin IsoTimestamps

\* C17: an event whose start timestamp cannot be parsed still gives its game,
\* with start_time None; parse_games returns.
C17_BadTimestampKeepsEvent ==
    ppc = "done" =>
        /\ parse_result = "returned"
        /\ \A i \in 1..Len(Events) :
              Unparseable(Events[i].startEventDate) =>
                 \E g \in GameIndices : origin[g] = i /\ games[g].start_time = NoDatetime

\* a game without start_time next to a game with one
C17_Witness ==
    /\ ppc = "done"
    /\ Len(games) > 1
    /\ Events[1].startEventDate = Str("tomorrow")
    /\ games[1].start_time = NoDatetime
    /\ games[Len(games)].start_time.t = "datetime"

\* the event has an id: a non-empty string or a number
HasId(event) == event.id.t = "num" \/ (event.id.t = "str" /\ event.id.v # "")

\* C18: every game's game_id is "dk_" followed by the id of its source event,
\* and an event without an id (absent, null or empty) gives no game.
C18_GameIdFromEventId ==
    /\ \A g \in GameIndices :
          /\ HasId(Events[origin[g]])
          /\ games[g].game_id = "dk_" \o Events[origin[g]].id.v
    /\ ppc = "done" =>
          \A i \in 1..Len(Events) :
             HasId(Events[i]) <=> \E g \in GameIndices : origin[g] = i

----------------------------------------------------------------------------
(* Properties of fetch_odds *)

OddsReturned == call.fn = "fetch_odds" /\ call.ret # <<>>

\* C19: fetch_odds ends by returning a list, never by raising: the empty list,
\* without a single request, for a sport id without a mapping; the empty list
\* when the client returned None or when the client or the parser raised; and
\* until it has returned, the call is at a point from which it goes on.
C19_AlwaysAList ==
    /\ OddsReturned =>
          /\ call.ret[1].kind = "list"
          /\ call.args[1] \notin DOMAIN get_sports_mapping
                => call.ret[1].games = <<>> /\ fetches = <<>> /\ pc = "idle"
          /\ result.kind \in {"none", "raised"} => call.ret[1].games = <<>>
          /\ parse_result = "raised" => call.ret[1].games = <<>>
          /\ parse_result = "returned" => call.ret[1].games = games
    /\ (call.fn = "fetch_odds" /\ ~OddsReturned) =>
          \/ pc \in {"idle", "manifest", "league", "template", "extract", "subcategory", "loop"}
          \/ pc = "done" /\ ppc \in {"idle", "start", "loop", "done"}

\* the client returned market data, the parser raised on it, and fetch_odds
\* returned the empty list
C19_Witness ==
    /\ OddsReturned
    /\ result.kind = "payload"
    /\ parse_result = "raised"
    /\ call.ret[1] = GamesList(<<>>)

----------------------------------------------------------------------------
(* Properties of invocations that run at the same time *)

\* C20: however the steps of two invocations of parse_games are interleaved,
\* each invocation gives what it gives when it runs alone on its payload.
C20_InvocationsIndependent ==
    /\ ppc = "done" =>
          Output(parse_result, games) = ParseGamesAlone(raw_data, parse_sport)
    /\ other.ppc = "done" =>
          Output(other.parse_result, other.games) = ParseGamesAlone(other.raw_data, other.sport)

\* two invocations for different sports whose event loops overlapped, each
\* returning games with markets
C20_Witness ==
    /\ ppc = "done"
    /\ other.ppc = "done"
    /\ other.interleaved
    /\ ~other.sequential
    /\ other.sport # parse_sport
    /\ Len(games) > 1
    /\ Len(other.games) > 1
    /\ DOMAIN games[1].markets # {}
    /\ DOMAIN other.games[1].markets # {}

----------------------------------------------------------------------------
(* Properties of get_games_for_sport: termination *)

\* the fetches a call issues before the candidate loop: manifest and template
SetupFetches == {"manifest", "template"}

(* C21: provided every network fetch completes or times out, a resolve call
   terminates, and it never issues more than 2 + N fetches, N being the number
   of query candidates extracted from the template: one for the manifest, one
   for the template and at most one per candidate. *)
C21_TerminatesWithinBudget ==
    /\ [](Len(fetches) <= Cardinality(SetupFetches) + Len(queries))
    /\ <>(pc = "done")

\* a call that ended after fetching every one of two or more candidates, the
\* last request having timed out
C21_Witness ==
    /\ pc = "done"
    /\ Len(queries) > 1
    /\ Len(fetches) = Cardinality(SetupFetches) + Len(queries)
    /\ fetches[Len(fetches)].transport = "timeout"

----------------------------------------------------------------------------
(* Properties of extract_all_market_queries *)

Descriptors == template_data.sets.items

\* the template has the shape the function reads: an object whose data.sets is
\* a list of descriptor objects, each with an object for its parameters
ValidTemplate ==
    /\ template_data.t = "obj"
    /\ template_data.sets.t # "null"
    /\ \A i \in 1..Len(Descriptors) :
          Descriptors[i].t = "obj" /\ Descriptors[i].parameters.t = "obj"

\* a query string that is present and not the empty string
NonEmpty(q) == q.t # "absent" /\ q # Query(<<>>)

IsMarketQuery(ds) ==
    /\ ds.provider = "Markets"
    /\ NonEmpty(ds.parameters.eventsQuery)
    /\ NonEmpty(ds.parameters.marketsQuery)

\* extract_all_market_queries has been called and has returned
QueriesExtracted ==
    /\ pc \notin {"idle", "manifest", "league", "template", "extract"}
    /\ ~Falsy(template_data)

\* C22: on a well-shaped template, the candidates are exactly the descriptors
\* with provider 'Markets' and both query strings non-empty, in template order,
\* each reduced to its name, eventsQuery and marketsQuery.
C22_MarketDescriptorsInOrder ==
    (QueriesExtracted /\ ValidTemplate) =>
        LET kept == SelectSeq(Descriptors, IsMarketQuery) IN
        /\ Len(queries) = Len(kept)
        /\ \A i \in 1..Len(kept) :
              /\ DOMAIN queries[i] = {"name", "eventsQuery", "marketsQuery"}
              /\ queries[i].name = kept[i].name
              /\ queries[i].eventsQuery = kept[i].parameters.eventsQuery
              /\ queries[i].marketsQuery = kept[i].parameters.marketsQuery

\* two different candidates were kept in template order, and a Markets
\* descriptor without an eventsQuery between them was ignored
C22_Witness ==
    /\ QueriesExtracted
    /\ ValidTemplate
    /\ Len(Descriptors) = MaxSets
    /\ Len(queries) = MaxSets - 1
    /\ queries[1] # queries[Len(queries)]
    /\ queries[1].eventsQuery = Head(Descriptors).parameters.eventsQuery
    /\ \E i \in 1..Len(Descriptors) :
          /\ Descriptors[i].provider = "Markets"
          /\ Descriptors[i].parameters.eventsQuery = NoQuery

----------------------------------------------------------------------------
(* Properties of find_league_info: several matching overrides *)

OverrideAt(m) == Groups[m[1]].overrides.items[m[2]]

\* what lines 105-117 read from one override
LeagueIdOf(ov) ==
    IF Contains(ov.route.toks, "/league/") THEN Str(Segment(ov.route.toks)) ELSE None

\* C23: when several overrides of the league group match the sport's path, both
\* ids come from the first of them in manifest order; when that one's route
\* gives no league id the call returns None without fetching a template, even
\* when a later matching override has a league id.
C23_FirstMatchWins ==
    (LeagueInfoReturned /\ ValidManifest /\ sport_name \in DOMAIN LEAGUE_ROUTES
        /\ Cardinality(Matches) > 1) =>
        /\ template_id = FirstMatch.templateId
        /\ numeric_league_id = LeagueIdOf(FirstMatch)
        /\ LeagueIdOf(FirstMatch) = None =>
              /\ pc = "done"
              /\ result = ReturnedNone
              /\ \A k \in FetchIndices : fetches[k].what = "manifest"

\* two overrides match, the first has no league id and the second has one: the
\* call ended with None and the first one's template id
C23_Witness ==
    /\ LeagueInfoReturned
    /\ ValidManifest
    /\ sport_name = "NFL"
    /\ Cardinality(Matches) > 1
    /\ LeagueIdOf(FirstMatch) = None
    /\ \E m \in Matches : LeagueIdOf(OverrideAt(m)) = Str("88808")
    /\ template_id = Str("T2")
    /\ numeric_league_id = None
    /\ result = ReturnedNone

----------------------------------------------------------------------------
(* core/database.py: the games table, and the persist loop of orchestrate *)

\* the columns orchestrate writes (orchestration.py 58-65)
Row(game) ==
    [sport |-> game.sport, game_id |-> game.game_id, home_team |-> game.home_team,
     away_team |-> game.away_team, start_time |-> game.start_time]

\* UNIQUE(sport, game_id) (database.py 30)
Key(row) == <<row.sport, row.game_id>>

\* variant: INSERT OR REPLACE, the stored row gives way to the new one
InsertOrIgnore_Replace(rows, game) ==
    IF \E i \in 1..Len(rows) : Key(rows[i]) = Key(game)
    THEN [i \in 1..Len(rows) |-> IF Key(rows[i]) = Key(game) THEN Row(game) ELSE rows[i]]
    ELSE Append(rows, Row(game))

\* INSERT OR IGNORE INTO games: a row with the same key makes it a no-op
InsertOrIgnore(rows, game) ==
    IF \E i \in 1..Len(rows) : Key(rows[i]) = Key(game)
    THEN rows
    ELSE Append(rows, Row(game))

\* lines 56-87: one INSERT OR IGNORE per collected game, in order (no game of
\* a provider has an `odds` attribute, so the odds table is never written)
RECURSIVE InsertAll(_, _)
InsertAll(rows, results) ==
    IF results = <<>> THEN rows
    ELSE InsertAll(InsertOrIgnore(rows, Head(results)), Tail(results))

\* the games the providers of the model return
StartsAt(game_id, start_time) ==
    [NoGame EXCEPT !.sport = "NFL", !.game_id = game_id, !.start_time = start_time]
KickOff == convert_to_datetime(Str("2024-01-15T20:00:00Z"))

\* the thread that calls Scheduler.start, or orchestrate directly
Starter == 0

\* an orchestrate call: its position, its argument and its `results` list
Run(sport_id) == [opc |-> "begin", sport_id |-> sport_id, results |-> <<>>, ti |-> 0]

\* lines 51-58 with an empty `results`: the connection is opened and committed
\* without a statement
PersistNothing(c) ==
    /\ runs[c].opc = "collected"
    /\ runs[c].results = <<>>
    /\ runs' = [runs EXCEPT ![c].opc = "returned"]
    /\ UNCHANGED <<table, writer>>

\* line 58, first game: the INSERT opens the transaction and takes the write lock
PersistBegin(c) ==
    /\ runs[c].opc = "collected"
    /\ runs[c].results # <<>>
    /\ writer = {}
    /\ writer' = {c}
    /\ runs' = [runs EXCEPT ![c].opc = "writing"]
    /\ UNCHANGED table

\* line 58 while another connection holds the write lock: sqlite3 waits for
\* its busy timeout and raises OperationalError, which leaves orchestrate
PersistBusy(c) ==
    /\ runs[c].opc = "collected"
    /\ runs[c].results # <<>>
    /\ writer # {}
    /\ runs' = [runs EXCEPT ![c].opc = "raised"]
    /\ UNCHANGED <<table, writer>>

\* lines 56-90: the rest of the loop and conn.commit(); the rows become visible
\* to the other connections at the commit
PersistCommit(c) ==
    /\ runs[c].opc = "writing"
    /\ table' = InsertAll(table, runs[c].results)
    /\ writer' = {}
    /\ runs' = [runs EXCEPT ![c].opc = "returned"]

Persist(c) == PersistNothing(c) \/ PersistBegin(c) \/ PersistBusy(c) \/ PersistCommit(c)

----------------------------------------------------------------------------
(* core/orchestration.py: one orchestrate call and its provider threads *)

\* get_all_providers: the DraftKings provider first, then any further
\* BaseProvider implementations found in the providers package
MaxProviders == 2
DraftKings == 1

\* what the discovery client and the parser give DraftKingsProvider.fetch_odds
DraftKingsFeed ==
    {Exception, GamesList(<<>>), GamesList(<<StartsAt("dk_1", KickOff)>>),
     GamesList(<<StartsAt("dk_1", KickOff), StartsAt("dk_2", KickOff)>>)}

\* what the fetch_odds of another provider may do: raise, or return a list,
\* possibly with a game another provider returns too
OtherFeed ==
    {Exception, GamesList(<<>>), GamesList(<<StartsAt("fd_1", KickOff)>>),
     GamesList(<<StartsAt("dk_1", NoDatetime), StartsAt("fd_1", KickOff)>>)}

NewThread == [pc |-> "new", odds |-> <<>>, raised |-> FALSE, invoked |-> FALSE]

\* lines 40-43: one thread per provider is created and started
StartThread ==
    /\ Starter \in DOMAIN runs
    /\ runs[Starter].opc \in {"begin", "start"}
    /\ LET t == runs[Starter].ti + 1 IN
       /\ threads' = [threads EXCEPT ![t].pc = "fetch"]
       /\ runs' = [runs EXCEPT ![Starter].ti = IF t = Len(threads) THEN 0 ELSE t,
                               ![Starter].opc = IF t = Len(threads) THEN "join" ELSE "start"]
    /\ UNCHANGED <<table, writer, results_lock>>
    /\ UNCHANGED <<providerVars, schedVars>>

\* run_provider line 21 in the DraftKings thread: fetch_odds returns [] for an
\* unmapped sport id without calling the client, and whatever the client and
\* the parser do it returns a list
FetchDraftKings ==
    /\ DraftKings \in DOMAIN threads
    /\ threads[DraftKings].pc = "fetch"
    /\ IF UnknownSport(runs[Starter].sport_id)
       THEN threads' = [threads EXCEPT ![DraftKings].pc = "acquire"]
       ELSE \E outcome \in DraftKingsFeed :
              threads' = [threads EXCEPT ![DraftKings].pc = "acquire",
                                         ![DraftKings].invoked = TRUE,
                                         ![DraftKings].odds = Caught(outcome).games]
    /\ UNCHANGED <<runs, table, writer, results_lock>>
    /\ UNCHANGED <<providerVars, schedVars>>

\* run_provider lines 21 and 24-29 in the thread of another provider
FetchOther(p) ==
    /\ p # DraftKings
    /\ threads[p].pc = "fetch"
    /\ \E outcome \in OtherFeed :
         threads' = [threads EXCEPT ![p].pc = IF outcome.kind = "raised"
                                               THEN "done" ELSE "acquire",
                                    ![p].raised = outcome.kind = "raised",
                                    ![p].invoked = TRUE,
                                    ![p].odds = outcome.games]
    /\ UNCHANGED <<runs, table, writer, results_lock>>
    /\ UNCHANGED <<providerVars, schedVars>>

\* line 22: `with _results_lock` is entered
AcquireLock(p) ==
    /\ threads[p].pc = "acquire"
    /\ results_lock = {}
    /\ results_lock' = {p}
    /\ threads' = [threads EXCEPT ![p].pc = "extend"]
    /\ UNCHANGED <<runs, table, writer>>
    /\ UNCHANGED <<providerVars, schedVars>>

\* line 23
Extend(p) ==
    /\ threads[p].pc = "extend"
    /\ runs' = [runs EXCEPT ![Starter].results = @ \o threads[p].odds]
    /\ threads' = [threads EXCEPT ![p].pc = "release"]
    /\ UNCHANGED <<table, writer, results_lock>>
    /\ UNCHANGED <<providerVars, schedVars>>

\* the `with` block is left and the thread ends
ReleaseLock(p) ==
    /\ threads[p].pc = "release"
    /\ results_lock' = results_lock \ {p}
    /\ threads' = [threads EXCEPT ![p].pc = "done"]
    /\ UNCHANGED <<runs, table, writer>>
    /\ UNCHANGED <<providerVars, schedVars>>

\* variant: join returns at once
Joined_NoWait(thread) == TRUE

\* t.join() returns when the thread has ended
Joined(thread) == thread.pc = "done"

\* lines 45-48
JoinThread ==
    /\ Starter \in DOMAIN runs
    /\ runs[Starter].opc = "join"
    /\ LET t == runs[Starter].ti + 1 IN
       /\ Joined(threads[t])
       /\ runs' = [runs EXCEPT ![Starter].ti = IF t = Len(threads) THEN 0 ELSE t,
                               ![Starter].opc = IF t = Len(threads)
                                                THEN "collected" ELSE "join"]
    /\ UNCHANGED <<threads, table, writer, results_lock>>
    /\ UNCHANGED <<providerVars, schedVars>>

\* lines 50-90 of the same call
PersistResults ==
    /\ Starter \in DOMAIN runs
    /\ Persist(Starter)
    /\ UNCHANGED <<threads, results_lock>>
    /\ UNCHANGED <<providerVars, schedVars>>

NextOrch ==
    \/ StartThread
    \/ FetchDraftKings
    \/ \E p \in DOMAIN threads : FetchOther(p)
    \/ \E p \in DOMAIN threads : AcquireLock(p)
    \/ \E p \in DOMAIN threads : Extend(p)
    \/ \E p \in DOMAIN threads : ReleaseLock(p)
    \/ JoinThread
    \/ PersistResults

\* orchestrate is called with its default sport_id or with a mapped sport id,
\* and finds one to MaxProviders providers; the database is new
InitOrch ==
    /\ ResolveIdle
    /\ ParseIdle
    /\ call = NoCall
    /\ running = FALSE
    /\ start_pc = "idle"
    /\ config = <<>>
    /\ si = <<>>
    /\ workers = <<>>
    /\ runs \in {(Starter :> Run(sport_id)) : sport_id \in {"NFL", "100"}}
    /\ calls = (Starter :> <<runs[Starter].sport_id>>)
    /\ table = <<>>
    /\ writer = {}
    /\ threads \in {[p \in 1..n |-> NewThread] : n \in 1..MaxProviders}
    /\ results_lock = {}

SpecOrch == InitOrch /\ [][NextOrch]_vars

----------------------------------------------------------------------------
(* Properties of orchestrate *)

ThreadsDone == \A p \in DOMAIN threads : threads[p].pc = "done"

\* what a provider thread hands to orchestrate: the list its fetch_odds
\* returned, nothing when fetch_odds raised
Contribution(p) == IF threads[p].raised THEN <<>> ELSE threads[p].odds

\* the orders in which the threads may have reached results.extend
Orders ==
    {o \in [DOMAIN threads -> DOMAIN threads] : \A i, j \in DOMAIN threads : o[i] = o[j] => i = j}

RECURSIVE Contributions(_)
Contributions(order) ==
    IF order = <<>> THEN <<>> ELSE Contribution(Head(order)) \o Contributions(Tail(order))

ReturnedGames ==
    UNION {{Contribution(p)[i] : i \in 1..Len(Contribution(p))} : p \in DOMAIN threads}

Rows == {table[i] : i \in 1..Len(table)}

(* C24: persisting starts only when every provider thread has ended; the
   collected list is then the lists returned by the providers that did not
   raise, each whole and once, in the order the threads reached the append; and
   when orchestrate returns, the table of a new database holds one row for
   each (sport, game_id) among the returned games and no other row. *)
C24_CollectsThenPersists ==
    /\ runs[Starter].opc = "join" => table = <<>>
    /\ runs[Starter].opc \in {"collected", "writing", "returned", "raised"} =>
          /\ ThreadsDone
          /\ \E order \in Orders : runs[Starter].results = Contributions(order)
    /\ runs[Starter].opc = "returned" =>
          /\ {Key(row) : row \in Rows} = {Key(game) : game \in ReturnedGames}
          /\ Rows \subseteq {Row(game) : game \in ReturnedGames}
          /\ Cardinality({Key(row) : row \in Rows}) = Len(table)

\* both providers returned games, the thread started last appended first, and
\* orchestrate has persisted the games of both
C24_Witness ==
    /\ runs[Starter].opc = "returned"
    /\ Len(threads) = MaxProviders
    /\ Len(threads[DraftKings].odds) > 1
    /\ \A p \in DOMAIN threads : ~threads[p].raised /\ threads[p].odds # <<>>
    /\ runs[Starter].results[1] \notin {threads[DraftKings].odds[i] :
                                          i \in 1..Len(threads[DraftKings].odds)}
    /\ Len(table) > Len(threads[DraftKings].odds)

----------------------------------------------------------------------------
(* core/scheduler.py: Scheduler.start, Scheduler.stop and the worker threads *)

\* how many orchestrate calls a worker is followed for, and the longest
\* interval of config.yaml, in seconds
MaxCalls == 2
MaxInterval == 1

\* config.yaml `intervals`: for each sport, in file order, the providers
\* with their interval
Entry(sport, providers) == [sport |-> sport, providers |-> providers]
Every(name, interval) == [name |-> name, interval |-> interval]

Configs ==
    {<<>>,
     <<Entry("NFL", <<Every("draftkings", MaxInterval)>>)>>,
     <<Entry("NFL", <<Every("draftkings", 0), Every("fanduel", MaxInterval)>>)>>,
     <<Entry("NBA", <<>>), Entry("NFL", <<Every("draftkings", 0)>>)>>,
     <<Entry("NBA", <<Every("draftkings", MaxInterval)>>),
       Entry("NFL", <<Every("draftkings", MaxInterval)>>)>>}

\* what the provider threads of an orchestrate call may have collected
Feeds ==
    {<<>>, <<StartsAt("dk_1", KickOff)>>,
     <<StartsAt("dk_1", NoDatetime), StartsAt("dk_2", KickOff)>>}

IdleRun == [opc |-> "idle", sport_id |-> "", results |-> <<>>, ti |-> 0]

\* variant: orchestrate is called without an argument
SportOf_Default(sport) == "NFL"

\* the sport_id a call is given: orchestrate(sport_id=sport)
SportOf(sport) == sport

\* threading.Thread(target=self._worker, args=(sport, provider_name, interval))
Worker(sport, provider, interval) ==
    [pc |-> "while", sport |-> sport, provider |-> provider, interval |-> interval,
     k |-> 0, after_stop |-> 0]

\* orchestration.py 33-48 as one step: the provider threads touch nothing but
\* the `results` list of their own call
Collect(c) ==
    /\ c \in DOMAIN runs
    /\ runs[c].opc = "begin"
    /\ \E results \in Feeds :
         runs' = [runs EXCEPT ![c].opc = "collected", ![c].results = results]
    /\ UNCHANGED <<table, writer>>
    /\ UNCHANGED <<running, start_pc, config, si, workers, calls>>
    /\ UNCHANGED <<providerVars, threads, results_lock>>

\* orchestration.py 50-90
PersistRun(c) ==
    /\ c \in DOMAIN runs
    /\ Persist(c)
    /\ UNCHANGED <<running, start_pc, config, si, workers, calls>>
    /\ UNCHANGED <<providerVars, threads, results_lock>>

\* lines 61-67
StartBegin ==
    /\ start_pc = "idle"
    /\ running' = TRUE
    /\ start_pc' = IF config = <<>> THEN "started" ELSE "initial"
    /\ si' = <<1, 1>>
    /\ UNCHANGED <<config, workers, runs, calls, table, writer>>
    /\ UNCHANGED <<providerVars, threads, results_lock>>

\* lines 68-71: the initial orchestrate call for the next sport
InitialCall ==
    /\ start_pc = "initial"
    /\ runs[Starter].opc = "idle"
    /\ runs' = [runs EXCEPT ![Starter] = Run(SportOf(config[si[1]].sport))]
    /\ calls' = [calls EXCEPT ![Starter] = Append(@, runs'[Starter].sport_id)]
    /\ UNCHANGED <<running, start_pc, config, si, workers, table, writer>>
    /\ UNCHANGED <<providerVars, threads, results_lock>>

\* lines 68-73: the call returned, or raised and was logged; the loop goes on
InitialDone ==
    /\ start_pc = "initial"
    /\ runs[Starter].opc \in {"returned", "raised"}
    /\ runs' = [runs EXCEPT ![Starter] = IdleRun]
    /\ IF si[1] < Len(config)
       THEN si' = <<si[1] + 1, 1>> /\ UNCHANGED start_pc
       ELSE si' = <<1, 1>> /\ start_pc' = "launch"
    /\ UNCHANGED <<running, config, workers, calls, table, writer>>
    /\ UNCHANGED <<providerVars, threads, results_lock>>

\* lines 81-89: one step of the two nested loops; a sport without providers
\* starts no thread
LaunchWorker ==
    /\ start_pc = "launch"
    /\ LET entry == config[si[1]]
           last == si[1] = Len(config)
       IN  IF si[2] > Len(entry.providers)
           THEN /\ IF last THEN start_pc' = "started" /\ UNCHANGED si
                           ELSE si' = <<si[1] + 1, 1>> /\ UNCHANGED start_pc
                /\ UNCHANGED <<workers, runs, calls>>
           ELSE LET p == entry.providers[si[2]] IN
                /\ workers' = Append(workers, Worker(entry.sport, p.name, p.interval))
                /\ runs' = runs @@ (Len(workers') :> IdleRun)
                /\ calls' = calls @@ (Len(workers') :> <<>>)
                /\ si' = <<si[1], si[2] + 1>>
                /\ UNCHANGED start_pc
    /\ UNCHANGED <<running, config, table, writer>>
    /\ UNCHANGED <<providerVars, threads, results_lock>>

\* lines 93-97, called once start has returned: join(timeout=1.0) waits at
\* most a second for each thread and changes nothing
Stop ==
    /\ start_pc = "started"
    /\ running' = FALSE
    /\ start_pc' = "stopped"
    /\ UNCHANGED <<config, si, workers, runs, calls, table, writer>>
    /\ UNCHANGED <<providerVars, threads, results_lock>>

\* line 34: `while self.running`
WhileCheck(w) ==
    /\ workers[w].pc = "while"
    /\ running => Len(calls[w]) < MaxCalls
    /\ workers' = [workers EXCEPT ![w].pc = IF running THEN "call" ELSE "exit"]
    /\ UNCHANGED <<running, start_pc, config, si, runs, calls, table, writer>>
    /\ UNCHANGED <<providerVars, threads, results_lock>>

\* line 48: orchestrate(sport_id=sport) is entered
CallOrchestrate(w) ==
    /\ workers[w].pc = "call"
    /\ runs' = [runs EXCEPT ![w] = Run(SportOf(workers[w].sport))]
    /\ calls' = [calls EXCEPT ![w] = Append(@, runs'[w].sport_id)]
    /\ workers' = [workers EXCEPT ![w].pc = "orchestrate",
                                  ![w].after_stop = IF running THEN @ ELSE @ + 1]
    /\ UNCHANGED <<running, start_pc, config, si, table, writer>>
    /\ UNCHANGED <<providerVars, threads, results_lock>>

\* lines 48-54: orchestrate returned, or raised and was logged
OrchestrateDone(w) ==
    /\ workers[w].pc = "orchestrate"
    /\ runs[w].opc \in {"returned", "raised"}
    /\ runs' = [runs EXCEPT ![w] = IdleRun]
    /\ workers' = [workers EXCEPT ![w].pc = "sleep", ![w].k = 0]
    /\ UNCHANGED <<running, start_pc, config, si, calls, table, writer>>
    /\ UNCHANGED <<providerVars, threads, results_lock>>

\* variant: the whole interval is slept in one piece
SleepIsOver_WholeInterval(k, interval, is_running) == k = interval

\* lines 54-56: the range is used up, or `not self.running` breaks the loop
SleepIsOver(k, interval, is_running) == k = interval \/ ~is_running

\* lines 54-57: one turn of the sleep loop up to the call of time.sleep(1)
SleepCheck(w) ==
    /\ workers[w].pc = "sleep"
    /\ workers' = [workers EXCEPT ![w].pc =
                        IF SleepIsOver(workers[w].k, workers[w].interval, running)
                        THEN "while" ELSE "sleeping"]
    /\ UNCHANGED <<running, start_pc, config, si, runs, calls, table, writer>>
    /\ UNCHANGED <<providerVars, threads, results_lock>>

\* line 57: time.sleep(1) returns
Wake(w) ==
    /\ workers[w].pc = "sleeping"
    /\ workers' = [workers EXCEPT ![w].pc = "sleep", ![w].k = @ + 1]
    /\ UNCHANGED <<running, start_pc, config, si, runs, calls, table, writer>>
    /\ UNCHANGED <<providerVars, threads, results_lock>>

\* the steps of the worker thread w
WorkerStep(w) ==
    /\ w \in DOMAIN workers
    /\ \/ WhileCheck(w)
       \/ CallOrchestrate(w)
       \/ Collect(w)
       \/ PersistRun(w)
       \/ OrchestrateDone(w)
       \/ SleepCheck(w)
       \/ Wake(w)

NextSched ==
    \/ StartBegin
    \/ InitialCall
    \/ Collect(Starter)
    \/ PersistRun(Starter)
    \/ InitialDone
    \/ LaunchWorker
    \/ Stop
    \/ \E w \in DOMAIN workers : WhileCheck(w)
    \/ \E w \in DOMAIN workers : CallOrchestrate(w)
    \/ \E w \in DOMAIN workers : Collect(w)
    \/ \E w \in DOMAIN workers : PersistRun(w)
    \/ \E w \in DOMAIN workers : OrchestrateDone(w)
    \/ \E w \in DOMAIN workers : SleepCheck(w)
    \/ \E w \in DOMAIN workers : Wake(w)

\* a Scheduler has been constructed; config.yaml holds one of Configs
InitSched ==
    /\ ResolveIdle
    /\ ParseIdle
    /\ call = NoCall
    /\ running = FALSE
    /\ start_pc = "idle"
    /\ config \in Configs
    /\ si = <<>>
    /\ workers = <<>>
    /\ runs = (Starter :> IdleRun)
    /\ calls = (Starter :> <<>>)
    /\ table = <<>>
    /\ writer = {}
    /\ threads = <<>>
    /\ results_lock = {}

SpecSched == InitSched /\ [][NextSched]_vars

----------------------------------------------------------------------------
(* Properties of the scheduler *)

\* the configured sports, and the configured (sport, provider) pairs, in file order
ConfiguredSports == [i \in 1..Len(config) |-> config[i].sport]

RECURSIVE PairsOf(_)
PairsOf(cfg) ==
    IF cfg = <<>> THEN <<>>
    ELSE [j \in 1..Len(Head(cfg).providers) |->
            <<Head(cfg).sport, Head(cfg).providers[j].name>>] \o PairsOf(Tail(cfg))

IsPrefix(s, t) == Len(s) <= Len(t) /\ \A i \in 1..Len(s) : s[i] = t[i]

StartedThreads == [w \in 1..Len(workers) |-> <<workers[w].sport, workers[w].provider>>]

(* C25: start makes one initial orchestrate call per configured sport, in
   order, all of them before the first worker thread is started; when it has
   returned there is exactly one worker thread per configured (sport, provider)
   pair; and every orchestrate call is given the sport of the pair (or of the
   initial fetch) it is made for. *)
C25_InitialFetchThenWorkers ==
    /\ IsPrefix(calls[Starter], ConfiguredSports)
    /\ workers # <<>> => calls[Starter] = ConfiguredSports
    /\ IsPrefix(StartedThreads, PairsOf(config))
    /\ start_pc \in {"started", "stopped"} =>
          /\ calls[Starter] = ConfiguredSports
          /\ StartedThreads = PairsOf(config)
    /\ \A w \in DOMAIN workers :
          \A i \in 1..Len(calls[w]) : calls[w][i] = PairsOf(config)[w][1]

\* two sports with one provider each: start has returned after two initial
\* calls, and the worker of each pair has called orchestrate for its own sport
C25_Witness ==
    /\ start_pc = "started"
    /\ Len(config) > 1
    /\ Len(calls[Starter]) = Len(config)
    /\ Len(workers) = Len(config)
    /\ \A w \in DOMAIN workers : calls[w] # <<>>
    /\ calls[1][1] # calls[Len(workers)][1]

\* every worker thread is a thread of its own, scheduled again and again, and
\* each of its steps ends: orchestrate returns or raises, time.sleep(1) returns
WorkerIds == UNION {DOMAIN PairsOf(cfg) : cfg \in Configs}

SpecStop == InitSched /\ [][NextSched]_vars /\ \A w \in WorkerIds : WF_vars(WorkerStep(w))

(* C26: once stop has set running to false, a worker begins at most one more
   orchestrate call (the one whose `while self.running` test it had already
   passed), enters no further time.sleep(1), and ends. *)
C26_StopEndsWorkers ==
    /\ [](\A w \in DOMAIN workers : workers[w].after_stop <= 1)
    /\ [][start_pc = "stopped" =>
            \A w \in DOMAIN workers :
                workers'[w].pc = "sleeping" => workers[w].pc = "sleeping"]_vars
    /\ (start_pc = "stopped") ~> (\A w \in DOMAIN workers : workers[w].pc = "exit")

\* stop came while one worker slept with most of its interval ahead and the
\* other had passed its `while` test: both have ended, the second after one
\* more call
C26_Witness ==
    /\ start_pc = "stopped"
    /\ Len(workers) > 1
    /\ \A w \in DOMAIN workers : workers[w].pc = "exit"
    /\ \E w \in DOMAIN workers : workers[w].after_stop = 1
    /\ \E w \in DOMAIN workers :
          workers[w].after_stop = 0 /\ workers[w].interval > 0 /\ workers[w].k < workers[w].interval

----------------------------------------------------------------------------
(* Properties of the games table *)

Keys == {Key(table[i]) : i \in 1..Len(table)}

\* the call of thread c commits in this step
Commits(c) == runs[c].opc = "writing" /\ runs'[c].opc = "returned"

(* C27: whatever orchestrate calls have run, one after the other or at the
   same time from several workers, the games table holds at most one row per
   (sport, game_id); a stored row is never changed or removed by a later call;
   and a call whose games are all stored already leaves the table as it is. *)
C27_FirstWriteWins ==
    /\ [](\A i, j \in 1..Len(table) : Key(table[i]) = Key(table[j]) => i = j)
    /\ [][IsPrefix(table, table')]_vars
    /\ [][\A c \in DOMAIN runs :
            (Commits(c) /\ \A i \in 1..Len(runs[c].results) : Key(runs[c].results[i]) \in Keys)
                => table' = table]_vars

\* a worker has committed a list that holds dk_1 with another start time
\* while the table kept the row first written for it, and the call of the
\* other worker met the write lock and raised
C27_Witness ==
    /\ Len(table) > 1
    /\ table[1] = Row(StartsAt("dk_1", KickOff))
    /\ \E w \in DOMAIN workers :
          /\ runs[w].opc = "returned"
          /\ runs[w].results # <<>>
          /\ runs[w].results[1] = StartsAt("dk_1", NoDatetime)
    /\ \E w \in DOMAIN workers : runs[w].opc = "raised"

----------------------------------------------------------------------------
(* Properties of parse_games: what a game's markets mapping may hold *)

(* C28: every entry of a game's markets mapping is the selection list of one
   market of the payload whose eventId is the game's source event id (as a
   string) and whose display name is the entry's key, and holds the records of
   exactly the selections whose marketId is that market's id: no market of
   another or of no event, and no selection of another or of no market, gets
   into a game. *)
C28_OnlyOwnMarkets ==
    ppc = "done" =>
        \A g \in GameIndices : \A name \in DOMAIN games[g].markets :
            \E k \in MarketIndices :
                /\ RefersTo(MarketAt(k), Events[origin[g]])
                /\ NameOf(MarketAt(k)) = name
                /\ games[g].markets[name] = RecordsOf(raw_data.selections.items, MarketAt(k).id)

\* a payload with a market of the first event and a market whose eventId is no
\* event's, each with one selection: the first game holds the one market with
\* its one selection, the other game holds nothing
C28_Witness ==
    /\ ppc = "done"
    /\ Len(games) = Len(Events)
    /\ Len(raw_data.markets.items) = MaxMarkets
    /\ MarketAt(1) = Market(Str("m1"), Str("e1"), Str("Moneyline"))
    /\ \E k \in MarketIndices : MarketAt(k) = Market(Str("m2"), Num("7"), Str("Player Props"))
    /\ \E i \in 1..Len(SourceSelections) :
          SourceSelections[i].marketId = Str("m2") /\ SourceSelections[i].label = Str("Team B")
    /\ DOMAIN games[1].markets = {"Moneyline"}
    /\ games[1].markets["Moneyline"] = <<[label |-> "Team A", odds |-> Str("+150")]>>
    /\ DOMAIN games[Len(games)].markets = {}

\* the markets of the payload that refer to the event of game g under a name
Namesakes(g, name) ==
    {k \in MarketIndices :
        RefersTo(MarketAt(k), Events[origin[g]]) /\ NameOf(MarketAt(k)) = name}

Last(S) == CHOOSE k \in S : \A j \in S : j <= k

(* C29: when several markets of one event have the same display name, the
   game's mapping has one entry under that name and its value is the record
   list of the selections of the last of them in payload order, with nothing
   of the earlier ones in it. *)
C29_LastNamesakeReplaces ==
    ppc = "done" =>
        \A g \in GameIndices : \A k \in MarketIndices :
            LET same == Namesakes(g, NameOf(MarketAt(k))) IN
            Cardinality(same) > 1 =>
                /\ NameOf(MarketAt(k)) \in DOMAIN games[g].markets
                /\ games[g].markets[NameOf(MarketAt(k))]
                      = RecordsOf(raw_data.selections.items, MarketAt(Last(same)).id)

\* two Moneyline markets of the first event, each with one selection: the
\* game's Moneyline entry is the selection of the second
C29_Witness ==
    /\ ppc = "done"
    /\ Len(games) > 0
    /\ origin[1] = 1
    /\ Cardinality(Namesakes(1, "Moneyline")) > 1
    /\ MarketAt(1).id = Str("m1")
    /\ RecordsOf(raw_data.selections.items, Str("m1")) = <<[label |-> "Team A", odds |-> Str("+150")]>>
    /\ DOMAIN games[1].markets = {"Moneyline"}
    /\ games[1].markets["Moneyline"] = <<[label |-> "Team B", odds |-> Str("+150")]>>

----------------------------------------------------------------------------
(* Properties of DraftKingsProvider.fetch_odds inside orchestrate *)

\* the DraftKings thread has got the result of fetch_odds
DraftKingsFetched == threads[DraftKings].pc \notin {"new", "fetch"}

(* C30: fetch_odds calls the discovery client only for the sport ids '100',
   '200' and '300'; for any other argument, such as the sport name 'NFL' that
   orchestrate passes by default, it returns an empty list without calling the
   client, and the rows orchestrate then persists all come from the other
   providers. *)
C30_SportNameFetchesNothing ==
    /\ threads[DraftKings].invoked => runs[Starter].sport_id \in {"100", "200", "300"}
    /\ (DraftKingsFetched /\ runs[Starter].sport_id \notin {"100", "200", "300"}) =>
          /\ ~threads[DraftKings].invoked
          /\ ~threads[DraftKings].raised
          /\ threads[DraftKings].odds = <<>>
          /\ Rows \subseteq UNION {{Row(Contribution(p)[i]) : i \in 1..Len(Contribution(p))} :
                                      p \in DOMAIN threads \ {DraftKings}}

\* orchestrate('NFL') has returned: the DraftKings thread ended without a call
\* of the client and with no game, and the games of the other provider are stored
C30_Witness ==
    /\ runs[Starter].opc = "returned"
    /\ runs[Starter].sport_id = "NFL"
    /\ Len(threads) = MaxProviders
    /\ threads[DraftKings].pc = "done"
    /\ ~threads[DraftKings].invoked
    /\ threads[DraftKings].odds = <<>>
    /\ Len(table) > 1

====
